---- MODULE Spec2Model ----
(***************************************************************************)
(* State-machine model of the grant-application workflow core:            *)
(* the application lifecycle (apps/applications), the reviewer assignment  *)
(* and COI services (apps/reviews/services.py), the review lifecycle       *)
(* (apps/reviews/models.py) and the audit log.                             *)
(*                                                                         *)
(* The persistent store is the state.  Every action is one call of a      *)
(* service method or one request handler, run to completion (the code      *)
(* opens no transaction, so a persistence failure in the middle of a       *)
(* handler leaves the writes made before it in place; the "fail" inputs    *)
(* of the actions choose the write at which such a failure happens).       *)
(* The actions of the section "requests served at once" take the same     *)
(* calls one query at a time, for requests that overlap.                   *)
(***************************************************************************)
EXTENDS Integers, Sequences, FiniteSets, TLC

(* ------------------------------ bounds --------------------------------- *)
\* The number of calls that write to the store in one behaviour.
MaxSteps == 4
\* The largest load a reviewer has when the load methods are called on
\* their own.
MaxLoad == 2

(* --------------------------- fixed populations -------------------------- *)
AppIds == {1, 2}
Reviewers == {"r1", "r2"}
Users == {"admin", "applicant"}
None == 0
NA == "NA"
\* The ids of the Criterion rows a rubric may have.
CriterionIds == {"c1", "c2"}
\* User.objects.filter(role=REVIEWER, is_active=True), in the model's
\* default ordering (Meta.ordering = ['-date_joined']).
ReviewerOrder == <<"r1", "r2">>
\* User.expertise_tags and Application.tags (set at creation, never changed
\* by the operations modelled here).
expertise_tags == [r \in Reviewers |-> IF r = "r1" THEN {"ai"} ELSE {"ai", "bio"}]
tags == [a \in AppIds |-> IF a = 1 THEN {"ai"} ELSE {}]

VARIABLES
    status,              \* Application.status, by application id
    submitted_at,        \* Application.submitted_at (None when unset)
    pending_revisions,   \* number of RevisionRequest rows in status PENDING
    appeals,             \* number of Appeal rows
    audit,               \* the AuditLog table, in insertion order
    assignments,         \* the ReviewAssignment table (set of rows)
    reviews,             \* the Review table, by assignment id
    coi_flags,           \* the COIFlag table (set of rows)
    current_load,        \* User.current_load, by reviewer
    criteria,            \* the Criterion rows of the rubric, by criterion id
    accounts,            \* the User rows that exist (reviewers apart)
    inflight,            \* the requests being served: each one's local state
    now,                 \* timezone.now()
    steps,               \* number of calls so far that wrote to the store
    last                 \* the last call and its outcome

appVars == <<status, submitted_at, pending_revisions, appeals>>
revVars == <<assignments, reviews, coi_flags, current_load>>
vars == <<status, submitted_at, pending_revisions, appeals, audit,
          assignments, reviews, coi_flags, current_load, criteria, accounts,
          inflight, now, steps, last>>

(* ------------------------- ApplicationStatus --------------------------- *)
ApplicationStatus ==
    {"DRAFT", "SUBMITTED", "IN_TRIAGE", "ASSIGNED", "UNDER_REVIEW", "REVIEWED",
     "DECISION_PENDING", "APPROVED", "REJECTED", "REVISION_REQUESTED",
     "UNDER_REVISION", "APPEAL_PENDING", "APPEAL_REVIEWED", "ARCHIVED"}

STATE_TRANSITIONS ==
    [s \in ApplicationStatus |->
        CASE s = "DRAFT" -> {"SUBMITTED"}
          [] s = "SUBMITTED" -> {"IN_TRIAGE", "DRAFT"}
          [] s = "IN_TRIAGE" -> {"ASSIGNED", "REJECTED"}
          [] s = "ASSIGNED" -> {"UNDER_REVIEW"}
          [] s = "UNDER_REVIEW" -> {"REVIEWED"}
          [] s = "REVIEWED" -> {"DECISION_PENDING"}
          [] s = "DECISION_PENDING" -> {"APPROVED", "REJECTED", "REVISION_REQUESTED"}
          [] s = "APPROVED" -> {"ARCHIVED"}
          [] s = "REJECTED" -> {"APPEAL_PENDING", "ARCHIVED"}
          [] s = "REVISION_REQUESTED" -> {"UNDER_REVISION"}
          [] s = "UNDER_REVISION" -> {"SUBMITTED"}
          [] s = "APPEAL_PENDING" -> {"APPEAL_REVIEWED"}
          [] s = "APPEAL_REVIEWED" -> {"APPROVED", "REJECTED"}
          [] s = "ARCHIVED" -> {}]

\* The new_status arguments tried: every status and one string that is none.
Targets == ApplicationStatus \cup {"BOGUS"}

\* Application.can_transition_to: STATE_TRANSITIONS.get(self.status, []),
\* then membership of new_status.
can_transition_to_AllowAll(cur, new_status) == TRUE
can_transition_to(cur, new_status) ==
    /\ cur \in DOMAIN STATE_TRANSITIONS
    /\ new_status \in STATE_TRANSITIONS[cur]

\* The applications that exist (rows of the Application table).
Apps == DOMAIN status

\* Application.objects.create: the next unused id.
NewAppId == Cardinality(Apps) + 1

(* ------------------------------ AuditLog ------------------------------- *)
\* One AuditLog row.  details is flattened: old_status / new_status for a
\* STATE_CHANGE row, reviewer (details.reviewer_id) and action
\* (details.action) for the assignment rows.  reason, ip_address and the
\* timestamp are carried through unread and are left out.
AuditEntry(action_type, actor, application, old_status, new_status, reviewer, action) ==
    [action_type |-> action_type, actor |-> actor, application |-> application,
     old_status |-> old_status, new_status |-> new_status,
     reviewer |-> reviewer, action |-> action]

\* ApplicationStateMachine._create_audit_log
StateChangeEntry_Swapped(actor, a, old_status, new_status) ==
    AuditEntry("STATE_CHANGE", actor, a, new_status, old_status, NA, NA)
StateChangeEntry(actor, a, old_status, new_status) ==
    AuditEntry("STATE_CHANGE", actor, a, old_status, new_status, NA, NA)

\* The NULL of AuditLog.actor (null=True): no user.
Nobody == "nobody"

\* AuditLog.actor is a ForeignKey with on_delete=SET_NULL: deleting the user
\* row u sets actor to NULL on every audit row of that user.
actor_set_null(log, u) ==
    [i \in DOMAIN log |-> IF log[i].actor = u THEN [log[i] EXCEPT !.actor = Nobody]
                          ELSE log[i]]

(* ------------------------- call bookkeeping ---------------------------- *)
\* The last call: its operation, its arguments and its outcome.  A call that
\* is refused before it writes anything records the operation, the
\* application (and reviewer) and the outcome only.
Call(op, a, r, target, actor, result) ==
    [op |-> op, app |-> a, reviewer |-> r, target |-> target,
     actor |-> actor, result |-> result]

\* The store before any request: no application, assignment, review, flag
\* or audit row; every reviewer's load is the field default 0; the users
\* have their accounts and no request is being served.
EmptyStore ==
    /\ status = <<>>
    /\ submitted_at = <<>>
    /\ pending_revisions = <<>>
    /\ appeals = <<>>
    /\ audit = <<>>
    /\ assignments = {}
    /\ reviews = <<>>
    /\ coi_flags = {}
    /\ current_load = [r \in Reviewers |-> 0]
    /\ accounts = Users
    /\ inflight = <<>>
    /\ now = 1
    /\ steps = 0
    /\ last = Call("init", None, NA, NA, NA, "ok")

\* The rubric of the spec's example, as seed_demo creates its rubric
\* (Criterion.objects.create per criterion): weight 30 / max 10 and
\* weight 70 / max 10; the first criterion is required.
SeedRubric ==
    [c \in CriterionIds |->
        [weight |-> IF c = "c1" THEN 30 ELSE 70, max_score |-> 10,
         is_required |-> (c = "c1")]]

Init ==
    /\ EmptyStore
    /\ criteria = SeedRubric

(* ----------------------- application creation -------------------------- *)
\* Application.objects.create with the given status: a new row, submitted_at
\* NULL (the field default).
CreateApplication(a, st) ==
    /\ steps < MaxSteps
    /\ steps' = steps + 1
    /\ status' = [x \in Apps \cup {a} |-> IF x = a THEN st ELSE status[x]]
    /\ submitted_at' = [x \in Apps \cup {a} |-> IF x = a THEN None ELSE submitted_at[x]]
    /\ pending_revisions' = [x \in Apps \cup {a} |-> IF x = a THEN 0 ELSE pending_revisions[x]]
    /\ appeals' = [x \in Apps \cup {a} |-> IF x = a THEN 0 ELSE appeals[x]]

\* views.application_create (POST) and the wizard's save_draft action:
\* a new application in DRAFT.
application_create ==
    /\ NewAppId \in AppIds
    /\ CreateApplication(NewAppId, "DRAFT")
    /\ last' = Call("application_create", NewAppId, NA, NA, "applicant", "ok")
    /\ UNCHANGED <<audit, revVars, now, criteria, accounts, inflight>>

\* The admin site's add form for Application (ApplicationAdmin): status is an
\* editable choice field, submitted_at is read-only and stays NULL.
admin_add_application ==
    \E st \in ApplicationStatus \ {"DRAFT"} :
        /\ "admin" \in accounts
        /\ NewAppId \in AppIds
        /\ CreateApplication(NewAppId, st)
        /\ last' = Call("admin_add_application", NewAppId, NA, st, "admin", "ok")
        /\ UNCHANGED <<audit, revVars, now, criteria, accounts, inflight>>

(* ------------------------ ApplicationStateMachine ---------------------- *)
\* The submitted_at stamp of transition_to: set only when the target is
\* SUBMITTED and the field is still unset.
StampSubmittedAt_Always(old, new_status, t) ==
    IF new_status = "SUBMITTED" THEN t ELSE old
StampSubmittedAt(old, new_status, t) ==
    IF new_status = "SUBMITTED" /\ old = None THEN t ELSE old

\* STATE_TRANSITIONS.get(self.application.status, []), as the error message
\* of transition_to prints it.
get_allowed_transitions_NoArchive(cur) ==
    IF cur \in DOMAIN STATE_TRANSITIONS THEN STATE_TRANSITIONS[cur] \ {"ARCHIVED"} ELSE {}
get_allowed_transitions(cur) ==
    IF cur \in DOMAIN STATE_TRANSITIONS THEN STATE_TRANSITIONS[cur] ELSE {}

\* The StateTransitionError of transition_to: its message names the current
\* status and the allowed targets (the target asked for, which it names too,
\* is left out); instance holds the fields of the caller's application
\* object when the error is raised.
StateTransitionError(op, a) ==
    [op |-> op, app |-> a, reviewer |-> NA, target |-> NA, actor |-> NA,
     result |-> "StateTransitionError",
     current |-> status[a], allowed |-> get_allowed_transitions(status[a]),
     instance |-> [status |-> status[a], submitted_at |-> submitted_at[a]]]

\* The notifications a view sends after its service call returned:
\* NotificationService creates its rows and either returns ("sent") or
\* raises ("failed").
Notifications == {"sent", "failed"}
\* The outcome of a call whose view went on to notify.
Notified(call, notification) ==
    [k \in DOMAIN call \cup {"notification"} |->
        IF k = "notification" THEN notification ELSE call[k]]
\* Whether the writes a request has made are undone when its notification
\* raises: never.  DATABASES sets no ATOMIC_REQUESTS and no view or service
\* opens a transaction, so every write is committed as it is made.
rolled_back_OnFailure(notification) == notification = "failed"
rolled_back(notification) == FALSE

\* ApplicationStateMachine.transition_to on a freshly loaded application.
\* fail = TRUE: AuditLog.objects.create raises after application.save()
\* (a refused call never reaches that write).  notification is the outcome
\* of the notifications the calling view sends after a successful call (NA
\* for a caller that sends none).
transition_to(op, a, new_status, actor, fail, notification) ==
    IF ~can_transition_to(status[a], new_status)
    THEN /\ ~fail
         /\ notification \in {NA, "sent"}
         /\ last' = StateTransitionError(op, a)
         /\ UNCHANGED <<appVars, audit, revVars, now, steps, criteria, accounts, inflight>>
    ELSE IF ~fail /\ notification # NA /\ rolled_back(notification)
    THEN /\ steps < MaxSteps
         /\ steps' = steps + 1
         /\ last' = Notified(Call(op, a, NA, new_status, actor, "ok"), notification)
         /\ UNCHANGED <<appVars, audit, revVars, now, criteria, accounts, inflight>>
    ELSE /\ steps < MaxSteps
         /\ steps' = steps + 1
         /\ status' = [status EXCEPT ![a] = new_status]
         /\ submitted_at' = [submitted_at EXCEPT
                                ![a] = StampSubmittedAt(submitted_at[a], new_status, now)]
         /\ now' = IF submitted_at'[a] # submitted_at[a] THEN now + 1 ELSE now
         /\ IF fail
            THEN /\ notification \in {NA, "sent"}
                 /\ audit' = audit
                 /\ last' = Call(op, a, NA, new_status, actor, "error")
            ELSE /\ audit' = Append(audit, StateChangeEntry(actor, a, status[a], new_status))
                 /\ last' = IF notification = NA
                            THEN Call(op, a, NA, new_status, actor, "ok")
                            ELSE Notified(Call(op, a, NA, new_status, actor, "ok"),
                                          notification)
         /\ UNCHANGED <<pending_revisions, appeals, revVars, criteria, accounts, inflight>>

\* A direct call of the service by an administrator (the admin bulk
\* actions transition_to_in_triage / transition_to_assigned, the tests).
TransitionTo ==
    \E a \in Apps, t \in Targets, fail \in BOOLEAN :
        /\ "admin" \in accounts
        /\ transition_to("transition_to", a, t, "admin", fail, NA)

\* permissions.can_edit_application: an administrator always, the owning
\* applicant while the application is DRAFT or UNDER_REVISION.
can_edit_application(user, a) ==
    \/ user = "admin"
    \/ user = "applicant" /\ status[a] \in {"DRAFT", "UNDER_REVISION"}

\* views.application_submit: transition_to('SUBMITTED') and the two
\* notifications when the user may edit the application, nothing otherwise.
application_submit ==
    \E a \in Apps, user \in accounts, fail \in BOOLEAN, notification \in Notifications :
        IF can_edit_application(user, a)
        THEN transition_to("application_submit", a, "SUBMITTED", user, fail, notification)
        ELSE /\ ~fail
             /\ notification = "sent"
             /\ last' = Call("application_submit", a, NA, NA, NA, "denied")
             /\ UNCHANGED <<appVars, audit, revVars, now, steps, criteria, accounts, inflight>>

\* multistep_views.apply_multistep, action == 'submit': a new application
\* is created in DRAFT, then its status is assigned SUBMITTED and saved.
wizard_submit ==
    /\ NewAppId \in AppIds
    /\ CreateApplication(NewAppId, "SUBMITTED")
    /\ last' = Call("wizard_submit", NewAppId, NA, "SUBMITTED", "applicant", "ok")
    /\ UNCHANGED <<audit, revVars, now, criteria, accounts, inflight>>

\* appeal_views.file_appeal (POST): only for a REJECTED application; creates
\* the Appeal row and assigns APPEAL_PENDING.
file_appeal ==
    \E a \in Apps :
        IF status[a] # "REJECTED"
        THEN /\ last' = Call("file_appeal", a, NA, NA, NA, "denied")
             /\ UNCHANGED <<appVars, audit, revVars, now, steps, criteria, accounts, inflight>>
        ELSE /\ steps < MaxSteps
             /\ steps' = steps + 1
             /\ appeals' = [appeals EXCEPT ![a] = @ + 1]
             /\ status' = [status EXCEPT ![a] = "APPEAL_PENDING"]
             /\ last' = Call("file_appeal", a, NA, "APPEAL_PENDING", "applicant", "ok")
             /\ UNCHANGED <<submitted_at, pending_revisions, audit, revVars, now, criteria, accounts, inflight>>

\* appeal_views.request_revision (POST): creates a PENDING RevisionRequest
\* and assigns REVISION_REQUESTED, whatever the current status.
request_revision ==
    \E a \in Apps :
        /\ "admin" \in accounts
        /\ steps < MaxSteps
        /\ steps' = steps + 1
        /\ pending_revisions' = [pending_revisions EXCEPT ![a] = @ + 1]
        /\ status' = [status EXCEPT ![a] = "REVISION_REQUESTED"]
        /\ last' = Call("request_revision", a, NA, "REVISION_REQUESTED", "admin", "ok")
        /\ UNCHANGED <<submitted_at, appeals, audit, revVars, now, criteria, accounts, inflight>>

\* appeal_views.submit_revision (POST): needs a PENDING RevisionRequest;
\* completes it and assigns SUBMITTED, whatever the current status.
submit_revision ==
    \E a \in Apps :
        IF pending_revisions[a] = 0
        THEN /\ last' = Call("submit_revision", a, NA, NA, NA, "denied")
             /\ UNCHANGED <<appVars, audit, revVars, now, steps, criteria, accounts, inflight>>
        ELSE /\ steps < MaxSteps
             /\ steps' = steps + 1
             /\ pending_revisions' = [pending_revisions EXCEPT ![a] = @ - 1]
             /\ status' = [status EXCEPT ![a] = "SUBMITTED"]
             /\ last' = Call("submit_revision", a, NA, "SUBMITTED", "applicant", "ok")
             /\ UNCHANGED <<submitted_at, appeals, audit, revVars, now, criteria, accounts, inflight>>

(* ------------------------------ Rubric --------------------------------- *)
\* rubric.criteria.all() and the fields of its rows.
Criteria == DOMAIN criteria
Weight_AsSeeded == [c \in Criteria |-> SeedRubric[c].weight]
Weight == [c \in Criteria |-> criteria[c].weight]
MaxScore == [c \in Criteria |-> criteria[c].max_score]
IsRequired == [c \in Criteria |-> criteria[c].is_required]
\* The scores a reviewer posts: int(request.POST[...]) and int(data['score'])
\* are stored as they come, one within the criterion's range and one above
\* its max_score.
ScoreValues == {8, 11}
\* Every score map review_interface can store: an entry for any of the
\* rubric's criteria that was posted.
ScoreMaps == UNION {[D -> ScoreValues] : D \in SUBSET Criteria}

RECURSIVE SumOver(_, _)
SumOver(f, D) ==
    IF D = {} THEN 0
    ELSE LET c == CHOOSE x \in D : TRUE IN f[c] + SumOver(f, D \ {c})

\* Rubric.get_total_weight
get_total_weight == SumOver(Weight, Criteria)

\* Decimal values are modelled as exact fractions <<numerator, denominator>>
\* in lowest terms with a positive denominator (the 28 significant digits
\* of the decimal context are far below the resolution of any value here).
RECURSIVE GCD(_, _)
GCD(x, y) == IF y = 0 THEN x ELSE GCD(y, x % y)
Abs(x) == IF x < 0 THEN 0 - x ELSE x
\* What a division by zero leaves (decimal.DivisionByZero is raised).
DivisionByZero == <<0, 0>>
Frac(n, d) ==
    IF d = 0 THEN DivisionByZero
    ELSE LET g == GCD(Abs(n), d) IN <<n \div g, d \div g>>
FracAdd(p, q) == Frac(p[1] * q[2] + q[1] * p[2], p[2] * q[2])
FracMul(p, k) == Frac(p[1] * k, p[2])
FracDiv(p, k) == Frac(p[1], p[2] * k)

\* scores_dict.get(str(criterion.id), 0)
ScoreOf_MissingIsMax(scores, c) == IF c \in DOMAIN scores THEN scores[c] ELSE MaxScore[c]
ScoreOf(scores, c) == IF c \in DOMAIN scores THEN scores[c] ELSE 0

\* The loop of calculate_weighted_score over the criteria D:
\* weighted_sum += (score / max_score) * criterion.weight
RECURSIVE weighted_sum(_, _)
weighted_sum(scores, D) ==
    IF D = {} THEN <<0, 1>>
    ELSE LET c == CHOOSE x \in D : TRUE
         IN  FracAdd(FracMul(Frac(ScoreOf(scores, c), MaxScore[c]), Weight[c]),
                     weighted_sum(scores, D \ {c}))

\* Rubric.calculate_weighted_score: Decimal('0') when the total weight is 0,
\* (weighted_sum / total_weight) * Decimal('100') otherwise.
calculate_weighted_score_NoGuard(scores) ==
    FracMul(FracDiv(weighted_sum(scores, Criteria), get_total_weight), 100)
calculate_weighted_score_Accumulating(scores) ==
    LET fresh == IF get_total_weight = 0 THEN <<0, 1>>
                 ELSE FracMul(FracDiv(weighted_sum(scores, Criteria), get_total_weight), 100)
    IN  IF last.op = "calculate_weighted_score" THEN FracAdd(fresh, last.result)
        ELSE fresh
calculate_weighted_score(scores) ==
    IF get_total_weight = 0 THEN <<0, 1>>
    ELSE FracMul(FracDiv(weighted_sum(scores, Criteria), get_total_weight), 100)

\* Review.overall_score is a DecimalField with decimal_places = 2: the value
\* is stored rounded (half to even) to hundredths, and is kept here as the
\* number of hundredths.
StoredOverallScore(q) ==
    LET n == q[1] * 100
        fl == n \div q[2]
        twice == 2 * (n % q[2])
    IN  IF twice > q[2] \/ (twice = q[2] /\ fl % 2 = 1) THEN fl + 1 ELSE fl

\* Review.is_complete: every required criterion has an entry in scores.
is_complete_Always(scores) == TRUE
is_complete_AllCriteria(scores) ==
    \A c \in Criteria : c \in DOMAIN scores
is_complete(scores) ==
    \A c \in Criteria : IsRequired[c] => c \in DOMAIN scores

(* ---------------------- ReviewerAssignmentService ---------------------- *)
\* The smallest id not used by a row of the table (ids are opaque).
NewId(rows) ==
    CHOOSE i \in 1..(Cardinality(rows) + 1) : \A x \in rows : x.id # i

\* ReviewAssignment.objects.filter(application=..., reviewer=...)
AssignmentsIn(rows, a, r) == {x \in rows : x.application = a /\ x.reviewer = r}
AssignmentsOf(a, r) == AssignmentsIn(assignments, a, r)
\* COIFlag.objects.filter(application=..., reviewer=...)
FlagsIn(flags, a, r) == {f \in flags : f.application = a /\ f.reviewer = r}
FlagsOf(a, r) == FlagsIn(coi_flags, a, r)

\* assign_reviewer's first check: a COIFlag row for the pair exists
\* (the filter does not look at is_resolved).
HasCOI_Never(a, r) == FALSE
HasCOI(a, r) == FlagsOf(a, r) # {}

\* assign_reviewer's second check: an assignment row for the pair exists.
AlreadyAssigned_Never(a, r) == FALSE
AlreadyAssigned(a, r) == AssignmentsOf(a, r) # {}

\* Meta.unique_together = ['application', 'reviewer'] of ReviewAssignment:
\* the insert is refused when a row for the pair exists.
AssignmentUnique(a, r) == AssignmentsOf(a, r) = {}

\* Meta.unique_together = ['reviewer', 'application'] of COIFlag: the insert
\* is refused when a flag for the pair exists.
FlagUnique_Always(a, r) == TRUE
FlagUnique(a, r) == FlagsOf(a, r) = {}

\* User.increment_load
increment_load_Twice(load) == load + 2
increment_load(load) == load + 1

\* User.decrement_load
decrement_load_Unguarded(load) == load - 1
decrement_load(load) == IF load > 0 THEN load - 1 ELSE load

\* The REVIEW_ASSIGNED row of assign_reviewer.
ReviewAssignedEntry(actor, a, r) ==
    AuditEntry("REVIEW_ASSIGNED", actor, a, NA, NA, r, NA)

\* The row unassign_reviewer writes (action type OTHER).
UnassignedEntry(actor, a, r) ==
    AuditEntry("OTHER", actor, a, NA, NA, r, "reviewer_unassigned")

\* ReviewerAssignmentService.assign_reviewer.  fail names the write that
\* raises: "load" (reviewer.increment_load), "audit" (create_audit_log),
\* "none".
assign_reviewer(op, a, r, assigned_by, fail) ==
    IF HasCOI(a, r)
    THEN /\ fail = "none"
         /\ last' = Call(op, a, r, NA, NA, "ConflictOfInterest")
         /\ UNCHANGED <<appVars, audit, revVars, now, steps, criteria, accounts, inflight>>
    ELSE IF AlreadyAssigned(a, r)
    THEN /\ fail = "none"
         /\ last' = Call(op, a, r, NA, NA, "DuplicateAssignment")
         /\ UNCHANGED <<appVars, audit, revVars, now, steps, criteria, accounts, inflight>>
    ELSE IF ~AssignmentUnique(a, r)
    THEN /\ fail = "none"
         /\ last' = Call(op, a, r, NA, NA, "IntegrityError")
         /\ UNCHANGED <<appVars, audit, revVars, now, steps, criteria, accounts, inflight>>
    ELSE /\ steps < MaxSteps
         /\ steps' = steps + 1
         /\ assignments' = assignments \cup
                {[id |-> NewId(assignments), application |-> a, reviewer |-> r,
                  status |-> "ASSIGNED"]}
         /\ current_load' = IF fail = "load" THEN current_load
                            ELSE [current_load EXCEPT ![r] = increment_load(@)]
         /\ audit' = IF fail = "none"
                     THEN Append(audit, ReviewAssignedEntry(assigned_by, a, r))
                     ELSE audit
         /\ last' = Call(op, a, r, NA, assigned_by,
                         IF fail = "none" THEN "ok" ELSE "error")
         /\ UNCHANGED <<appVars, reviews, coi_flags, now, criteria, accounts, inflight>>

AssignReviewer ==
    \E a \in Apps, r \in Reviewers, fail \in {"none", "load", "audit"} :
        /\ "admin" \in accounts
        /\ assign_reviewer("assign_reviewer", a, r, "admin", fail)

\* The user ids a bulk_assign_reviewers call is given: the reviewers' and
\* one that User.objects.get(id=..., role=REVIEWER) does not find.
BulkIds == Reviewers \cup {"admin"}
\* The reviewer_ids lists tried: of one id and of two.
IdLists == {<<x>> : x \in BulkIds} \cup {<<x, y>> : x \in BulkIds, y \in BulkIds}

\* One pass of the loop of bulk_assign_reviewers on the store st (the
\* assignments, loads and audit rows so far, with the two lists being
\* built): the lookup of the reviewer, then assign_reviewer.  fail names the
\* write of that assign_reviewer call that raises ("none": no write does).
bulk_step(st, a, id, assigned_by, fail) ==
    IF id \notin Reviewers
    THEN [st EXCEPT !.errors = Append(@, <<id, "not found">>)]
    ELSE IF HasCOI(a, id)
    THEN [st EXCEPT !.errors = Append(@, <<id, "ConflictOfInterest">>)]
    ELSE IF AssignmentsIn(st.assignments, a, id) # {}
    THEN [st EXCEPT !.errors = Append(@, <<id, "DuplicateAssignment">>)]
    ELSE [assignments |-> st.assignments \cup
                {[id |-> NewId(st.assignments), application |-> a, reviewer |-> id,
                  status |-> "ASSIGNED"]},
          current_load |-> IF fail = "load" THEN st.current_load
                           ELSE [st.current_load EXCEPT ![id] = increment_load(@)],
          audit |-> IF fail = "none"
                    THEN Append(st.audit, ReviewAssignedEntry(assigned_by, a, id))
                    ELSE st.audit,
          assigned |-> IF fail = "none" THEN Append(st.assigned, id) ELSE st.assigned,
          errors |-> st.errors,
          raised |-> (fail # "none")]

\* The loop from position i on.  An id that is refused is put on the error
\* list and the loop goes on; an exception other than User.DoesNotExist
\* ends the call.  fail names the write that raises in the first
\* assign_reviewer call of the batch that reaches its writes.
RECURSIVE bulk_loop_StopAtError(_, _, _, _, _, _)
bulk_loop_StopAtError(st, a, ids, i, assigned_by, fail) ==
    IF i > Len(ids) \/ st.raised \/ st.errors # <<>> THEN st
    ELSE bulk_loop_StopAtError(
             bulk_step(st, a, ids[i], assigned_by,
                       IF st.assigned = <<>> THEN fail ELSE "none"),
             a, ids, i + 1, assigned_by, fail)
RECURSIVE bulk_loop(_, _, _, _, _, _)
bulk_loop(st, a, ids, i, assigned_by, fail) ==
    IF i > Len(ids) \/ st.raised THEN st
    ELSE bulk_loop(bulk_step(st, a, ids[i], assigned_by,
                             IF st.assigned = <<>> THEN fail ELSE "none"),
                   a, ids, i + 1, assigned_by, fail)

\* ReviewerAssignmentService.bulk_assign_reviewers.
bulk_assign_reviewers ==
    \E a \in Apps, ids \in IdLists, fail \in {"none", "load", "audit"} :
        \E res \in {bulk_loop([assignments |-> assignments, current_load |-> current_load,
                               audit |-> audit, assigned |-> <<>>, errors |-> <<>>,
                               raised |-> FALSE],
                              a, ids, 1, "admin", fail)} :
            /\ "admin" \in accounts
            /\ fail # "none" => res.raised
            /\ IF res.assignments = assignments
               THEN steps' = steps
               ELSE steps < MaxSteps /\ steps' = steps + 1
            /\ assignments' = res.assignments
            /\ current_load' = res.current_load
            /\ audit' = res.audit
            /\ last' = [op |-> "bulk_assign_reviewers", app |-> a, reviewer |-> NA,
                        target |-> NA, actor |-> "admin",
                        result |-> IF res.raised THEN "error" ELSE "ok",
                        ids |-> ids, assigned |-> res.assigned, errors |-> res.errors]
            /\ UNCHANGED <<appVars, reviews, coi_flags, now, criteria, accounts, inflight>>

(* ----------------------- get_recommended_reviewers --------------------- *)
\* The numbers the code computes in floating point are kept as exact
\* fractions; for the tag sets and loads of this model the two orders agree.
FracLess(p, q) == p[1] * q[2] < q[1] * p[2]

\* The candidate pool: the active reviewers without a COIFlag row on the
\* application (whatever its is_resolved) and without an assignment to it.
pool(a) ==
    SelectSeq(ReviewerOrder,
              LAMBDA r : FlagsOf(a, r) = {} /\ AssignmentsOf(a, r) = {})

\* Jaccard similarity of the application's and the reviewer's tags, 0 when
\* either set is empty.
expertise_score(a, r) ==
    IF tags[a] # {} /\ expertise_tags[r] # {}
    THEN Frac(Cardinality(tags[a] \cap expertise_tags[r]),
              Cardinality(tags[a] \cup expertise_tags[r]))
    ELSE <<0, 1>>

\* 1 - min(current_load, 20) / 20
load_score(r) ==
    Frac(20 - (IF current_load[r] < 20 THEN current_load[r] ELSE 20), 20)

\* expertise_score * 0.6 + load_score * 0.4
combined_score(a, r) ==
    FracAdd(FracDiv(FracMul(expertise_score(a, r), 6), 10),
            FracDiv(FracMul(load_score(r), 4), 10))

scored(a, r) ==
    [reviewer |-> r, expertise_score |-> expertise_score(a, r),
     load_score |-> load_score(r), combined_score |-> combined_score(a, r),
     current_load |-> current_load[r]]

\* list.sort(key=combined_score, reverse=True): a stable sort, descending.
\* e goes behind every element that is not smaller than it.
Insert_Ascending(sorted, e) ==
    LET k == Cardinality({i \in DOMAIN sorted :
                             ~FracLess(e.combined_score, sorted[i].combined_score)})
    IN  SubSeq(sorted, 1, k) \o <<e>> \o SubSeq(sorted, k + 1, Len(sorted))
Insert(sorted, e) ==
    LET k == Cardinality({i \in DOMAIN sorted :
                             ~FracLess(sorted[i].combined_score, e.combined_score)})
    IN  SubSeq(sorted, 1, k) \o <<e>> \o SubSeq(sorted, k + 1, Len(sorted))

RECURSIVE SortByCombinedScore(_)
SortByCombinedScore(seq) ==
    IF seq = <<>> THEN <<>>
    ELSE Insert(SortByCombinedScore(SubSeq(seq, 1, Len(seq) - 1)), seq[Len(seq)])

\* scored_reviewers[:num_recommendations]
Take(seq, n) == SubSeq(seq, 1, IF n < Len(seq) THEN n ELSE Len(seq))

\* The scored list before it is sorted, in the pool's order.
scored_reviewers(a) == [i \in DOMAIN pool(a) |-> scored(a, pool(a)[i])]

\* ReviewerAssignmentService.get_recommended_reviewers: reads only.
get_recommended_reviewers ==
    \E a \in Apps, num_recommendations \in {1, 5} :
        /\ "admin" \in accounts
        /\ last' = [op |-> "get_recommended_reviewers", app |-> a, reviewer |-> NA,
                    target |-> NA, actor |-> "admin", result |-> "ok",
                    num |-> num_recommendations,
                    returned |-> Take(SortByCombinedScore(scored_reviewers(a)),
                                      num_recommendations)]
        /\ UNCHANGED <<appVars, audit, revVars, now, steps, criteria, accounts, inflight>>

\* The writes of ReviewerAssignmentService.unassign_reviewer on assignment
\* row x, in order: decrement the load, append the audit row, delete the
\* assignment (the Review row goes with it: on_delete=CASCADE).  fail names
\* the write that raises: "audit" (create_audit_log), "delete"
\* (assignment.delete), "none".
unassign_writes(x, unassigned_by, fail) ==
    /\ current_load' = [current_load EXCEPT ![x.reviewer] = decrement_load(@)]
    /\ audit' = IF fail = "audit" THEN audit
                ELSE Append(audit, UnassignedEntry(unassigned_by, x.application, x.reviewer))
    /\ assignments' = IF fail = "none" THEN assignments \ {x} ELSE assignments
    /\ reviews' = IF fail = "none" THEN [i \in DOMAIN reviews \ {x.id} |-> reviews[i]]
                  ELSE reviews

\* A direct call of unassign_reviewer on an existing assignment.
unassign_reviewer ==
    \E x \in assignments, fail \in {"none", "audit", "delete"} :
        /\ "admin" \in accounts
        /\ steps < MaxSteps
        /\ steps' = steps + 1
        /\ unassign_writes(x, "admin", fail)
        /\ last' = Call("unassign_reviewer", x.application, x.reviewer, NA, "admin",
                        IF fail = "none" THEN "ok" ELSE "error")
        /\ UNCHANGED <<appVars, coi_flags, now, criteria, accounts, inflight>>

(* ------------------------------ COIService ----------------------------- *)
\* views.declare_coi with COIService.declare_coi (the reviewer is
\* request.user) and the notification of the administrators after it.  COIFlag.objects.create is refused by unique_together
\* when the pair already has a flag; otherwise the flag is created and an
\* existing assignment of the pair is unassigned by the reviewer.  fail names
\* the write of that unassign_reviewer call that raises ("none" when the
\* pair has no assignment: the call is not made).
declare_coi ==
    \E a \in Apps, r \in Reviewers, fail \in {"none", "audit", "delete"},
       notification \in Notifications :
        IF ~FlagUnique(a, r)
        THEN /\ fail = "none"
             /\ notification = "sent"
             /\ last' = Call("declare_coi", a, r, NA, NA, "IntegrityError")
             /\ UNCHANGED <<appVars, audit, revVars, now, steps, criteria, accounts, inflight>>
        ELSE IF fail = "none" /\ rolled_back(notification)
        THEN /\ steps < MaxSteps
             /\ steps' = steps + 1
             /\ last' = Notified(Call("declare_coi", a, r, NA, r, "ok"), notification)
             /\ UNCHANGED <<appVars, audit, revVars, now, criteria, accounts, inflight>>
        ELSE /\ steps < MaxSteps
             /\ steps' = steps + 1
             /\ coi_flags' = coi_flags \cup
                    {[id |-> NewId(coi_flags), application |-> a, reviewer |-> r,
                      is_resolved |-> FALSE]}
             /\ IF AssignmentsOf(a, r) # {}
                THEN \E x \in AssignmentsOf(a, r) :
                        /\ Cardinality(AssignmentsOf(a, r)) = 1
                        /\ unassign_writes(x, r, fail)
                ELSE /\ fail = "none"
                     /\ UNCHANGED <<current_load, audit, assignments, reviews>>
             /\ fail # "none" => notification = "sent"
             /\ last' = IF fail = "none"
                        THEN Notified(Call("declare_coi", a, r, NA, r, "ok"), notification)
                        ELSE Call("declare_coi", a, r, NA, r, "error")
             /\ UNCHANGED <<appVars, now, criteria, accounts, inflight>>

\* COIFlag.resolve, from the admin action mark_resolved on unresolved flags.
resolve_coi ==
    \E f \in coi_flags :
        /\ "admin" \in accounts
        /\ ~f.is_resolved
        /\ steps < MaxSteps
        /\ steps' = steps + 1
        /\ coi_flags' = (coi_flags \ {f}) \cup {[f EXCEPT !.is_resolved = TRUE]}
        /\ last' = Call("resolve_coi", f.application, f.reviewer, NA, "admin", "ok")
        /\ UNCHANGED <<appVars, audit, assignments, reviews, current_load, now, criteria, accounts, inflight>>

\* User.organization: a CharField that may be blank.
Organizations == {"", "acme", "other"}

\* check_potential_coi's queryset: the reviewer's assignments on the
\* applicant's applications (every application here is the applicant's)
\* other than this one.
previous_reviews_IncludingThis(a, r) == {x \in assignments : x.reviewer = r}
previous_reviews(a, r) == {x \in assignments : x.reviewer = r /\ x.application # a}

\* The list check_potential_coi builds: the organization warning first, the
\* warning with the count of previous_reviews second.
potential_coi_warnings(a, r, reviewer_org, applicant_org) ==
    (IF reviewer_org # "" /\ reviewer_org = applicant_org
     THEN << <<"Same organization as applicant">> >> ELSE << >>)
    \o (IF previous_reviews(a, r) # {}
        THEN << <<"Previously reviewed", Cardinality(previous_reviews(a, r)),
                  "applications from this applicant">> >>
        ELSE << >>)

\* COIService.check_potential_coi: reads only.
check_potential_coi ==
    \E a \in Apps, r \in Reviewers, reviewer_org \in Organizations,
       applicant_org \in Organizations :
        /\ last' = [op |-> "check_potential_coi", app |-> a, reviewer |-> r,
                    target |-> NA, actor |-> NA, result |-> "ok",
                    reviewer_org |-> reviewer_org, applicant_org |-> applicant_org,
                    returned |-> potential_coi_warnings(a, r, reviewer_org, applicant_org)]
        /\ UNCHANGED <<appVars, audit, revVars, now, steps, criteria, accounts, inflight>>

(* ---------------------------- Review lifecycle ------------------------- *)
\* The row Review.objects.get_or_create(assignment=...) creates.
NewReview == [status |-> "DRAFT", scores |-> <<>>, overall_score |-> None,
              submitted_at |-> None]
ReviewOf(x) == IF x.id \in DOMAIN reviews THEN reviews[x.id] ELSE NewReview
SetReview(x, rv) ==
    [i \in DOMAIN reviews \cup {x.id} |-> IF i = x.id THEN rv ELSE reviews[i]]

\* views.review_interface (POST) by the assigned reviewer: get_or_create
\* the review and replace its scores by the posted ones.
review_interface ==
    \E x \in assignments, posted \in ScoreMaps :
        /\ steps < MaxSteps
        /\ steps' = steps + 1
        /\ reviews' = SetReview(x, [ReviewOf(x) EXCEPT !.scores = posted])
        /\ last' = Call("review_interface", x.application, x.reviewer, NA, x.reviewer, "ok")
        /\ UNCHANGED <<appVars, audit, assignments, coi_flags, current_load, now, criteria, accounts, inflight>>

\* views.save_review_score by the assigned reviewer: get_or_create the
\* review and set one entry of its scores.
save_review_score ==
    \E x \in assignments, c \in Criteria, v \in ScoreValues :
        /\ steps < MaxSteps
        /\ steps' = steps + 1
        /\ reviews' = SetReview(x,
              [ReviewOf(x) EXCEPT !.scores =
                  [k \in DOMAIN @ \cup {c} |-> IF k = c THEN v ELSE @[k]]])
        /\ last' = Call("save_review_score", x.application, x.reviewer, NA, x.reviewer, "ok")
        /\ UNCHANGED <<appVars, audit, assignments, coi_flags, current_load, now, criteria, accounts, inflight>>

\* Review.submit's last part: the application becomes REVIEWED when it has
\* assignments and all of them are COMPLETED.
AllCompleted_AnyCompleted(rows, a) ==
    \E y \in rows : y.application = a /\ y.status = "COMPLETED"
AllCompleted(rows, a) ==
    LET mine == {y \in rows : y.application = a}
    IN  /\ Cardinality({y \in mine : y.status = "COMPLETED"}) = Cardinality(mine)
        /\ Cardinality(mine) > 0

\* views.review_submit by the assigned reviewer, with Review.submit and the
\* notification of the administrators after it.
review_submit ==
    \E x \in assignments, notification \in Notifications :
        IF x.id \notin DOMAIN reviews
        THEN /\ notification = "sent"
             /\ last' = Call("review_submit", x.application, x.reviewer, NA, NA, "DoesNotExist")
             /\ UNCHANGED <<appVars, audit, revVars, now, steps, criteria, accounts, inflight>>
        ELSE IF ~is_complete(reviews[x.id].scores)
        THEN /\ notification = "sent"
             /\ last' = Call("review_submit", x.application, x.reviewer, NA, NA, "ValueError")
             /\ UNCHANGED <<appVars, audit, revVars, now, steps, criteria, accounts, inflight>>
        ELSE IF rolled_back(notification)
        THEN /\ steps < MaxSteps
             /\ steps' = steps + 1
             /\ last' = Notified(Call("review_submit", x.application, x.reviewer, NA,
                                      x.reviewer, "ok"), notification)
             /\ UNCHANGED <<appVars, audit, revVars, now, criteria, accounts, inflight>>
        ELSE /\ steps < MaxSteps
             /\ steps' = steps + 1
             /\ reviews' = [reviews EXCEPT ![x.id] =
                    [status |-> "SUBMITTED", scores |-> @.scores,
                     overall_score |->
                         StoredOverallScore(calculate_weighted_score(@.scores)),
                     submitted_at |-> now]]
             /\ now' = now + 1
             /\ assignments' = (assignments \ {x}) \cup {[x EXCEPT !.status = "COMPLETED"]}
             /\ status' = IF AllCompleted(assignments', x.application)
                          THEN [status EXCEPT ![x.application] = "REVIEWED"]
                          ELSE status
             /\ last' = Notified(Call("review_submit", x.application, x.reviewer, NA,
                                      x.reviewer, "ok"), notification)
             /\ UNCHANGED <<submitted_at, pending_revisions, appeals, audit,
                            coi_flags, current_load, criteria, accounts, inflight>>

(* ------------------- the rubric's functions on their own --------------- *)
\* The rubrics the admin site can hold: any of the criteria, each with a
\* weight >= 0 (MinValueValidator(0)), a max_score >= 1
\* (MinValueValidator(1)) and its is_required flag.
Rubrics ==
    UNION {[D -> [weight : {0, 30, 70}, max_score : {3, 10}, is_required : BOOLEAN]] :
              D \in SUBSET CriterionIds}
\* The score maps a review can hold (Review.scores is a JSON object of
\* integers, keyed by whatever criterion id was posted).
StoredScoreMaps == UNION {[D -> {6, 8, 11}] : D \in SUBSET CriterionIds}

InitScore ==
    /\ EmptyStore
    /\ criteria \in Rubrics

\* A call of rubric.calculate_weighted_score(scores).  previous holds the
\* result of the call before it when that call had the same argument.
CalculateWeightedScore ==
    \E scores \in StoredScoreMaps :
        /\ last' = [op |-> "calculate_weighted_score", scores |-> scores,
                    result |-> calculate_weighted_score(scores),
                    previous |-> IF last.op = "calculate_weighted_score"
                                    /\ last.scores = scores
                                 THEN <<last.result>> ELSE <<>>]
        /\ UNCHANGED <<appVars, audit, revVars, now, steps, criteria, accounts, inflight>>

\* A call of review.is_complete() on a review holding scores.
IsComplete ==
    \E scores \in StoredScoreMaps :
        /\ last' = [op |-> "is_complete", scores |-> scores,
                    result |-> is_complete(scores)]
        /\ UNCHANGED <<appVars, audit, revVars, now, steps, criteria, accounts, inflight>>

NextScore ==
    \/ CalculateWeightedScore
    \/ IsComplete

SpecScore == InitScore /\ [][NextScore]_vars

(* --------------------- the load counter on its own --------------------- *)
\* Reviewers with the loads that earlier assignments have left them (the
\* rows that go with the loads play no part in the two methods and are left
\* out).
InitLoad ==
    /\ status = <<>>
    /\ submitted_at = <<>>
    /\ pending_revisions = <<>>
    /\ appeals = <<>>
    /\ audit = <<>>
    /\ assignments = {}
    /\ reviews = <<>>
    /\ coi_flags = {}
    /\ current_load \in [Reviewers -> 0..MaxLoad]
    /\ criteria = SeedRubric
    /\ accounts = Users
    /\ inflight = <<>>
    /\ now = 1
    /\ steps = 0
    /\ last = [op |-> "init", reviewer |-> NA, before |-> None, result |-> "ok"]

\* A call of reviewer.increment_load() on a freshly loaded reviewer (as
\* tests/test_basic.py does); before is the load the call found.
IncrementLoad ==
    \E r \in Reviewers :
        /\ steps < MaxSteps
        /\ steps' = steps + 1
        /\ current_load' = [current_load EXCEPT ![r] = increment_load(@)]
        /\ last' = [op |-> "increment_load", reviewer |-> r,
                    before |-> current_load[r], result |-> "ok"]
        /\ UNCHANGED <<appVars, audit, assignments, reviews, coi_flags, now,
                       criteria, accounts, inflight>>

\* A call of reviewer.decrement_load(): at load 0 nothing is saved.
DecrementLoad ==
    \E r \in Reviewers :
        /\ IF current_load[r] > 0
           THEN steps < MaxSteps /\ steps' = steps + 1
           ELSE steps' = steps
        /\ current_load' = [current_load EXCEPT ![r] = decrement_load(@)]
        /\ last' = [op |-> "decrement_load", reviewer |-> r,
                    before |-> current_load[r], result |-> "ok"]
        /\ UNCHANGED <<appVars, audit, assignments, reviews, coi_flags, now,
                       criteria, accounts, inflight>>

(* ------------------------ requests served at once ---------------------- *)
\* The code takes no lock, opens no transaction and uses no F() expression
\* or select_for_update: a request works on the model instances it loaded,
\* and each of its queries is one step that the queries of another request
\* may come between.  inflight holds, per request, the call, the line it has
\* reached (pc) and its instances' fields as loaded (mem_*).
RequestIds == {1, 2}

Request(op, a, r, target, actor, pc, mem_status, mem_submitted_at, mem_load, row) ==
    [op |-> op, app |-> a, reviewer |-> r, target |-> target, actor |-> actor,
     pc |-> pc, mem_status |-> mem_status, mem_submitted_at |-> mem_submitted_at,
     mem_load |-> mem_load, row |-> row, result |-> NA]

\* The requests that have not returned yet.
Serving(pc) == {k \in DOMAIN inflight : inflight[k].pc = pc}

\* Request k arrives: the requests are numbered in their order of arrival.
Arrive(k, req) ==
    /\ k = Cardinality(DOMAIN inflight) + 1
    /\ steps < MaxSteps
    /\ steps' = steps + 1
    /\ inflight' = [i \in DOMAIN inflight \cup {k} |-> IF i = k THEN req ELSE inflight[i]]

\* Request k moves on to line pc.
Goto(k, pc) == inflight' = [inflight EXCEPT ![k].pc = pc]

\* Request k returns (or raises) with the given outcome.
Return(k, result) ==
    /\ inflight' = [inflight EXCEPT ![k].pc = "done", ![k].result = result]
    /\ last' = Call(inflight[k].op, inflight[k].app, inflight[k].reviewer,
                    inflight[k].target, inflight[k].actor, result)

\* The targets of the overlapping transition_to calls: those of the
\* handlers (SUBMITTED of application_submit, IN_TRIAGE and ASSIGNED of the
\* admin actions) and the two decisions.
ConcurrentTargets == {"SUBMITTED", "IN_TRIAGE", "ASSIGNED", "APPROVED", "REJECTED"}

\* A caller loads the application (get_object_or_404, the admin action's
\* queryset) and calls transition_to on it.
begin_transition ==
    \E k \in RequestIds, a \in Apps, t \in ConcurrentTargets :
        /\ "admin" \in accounts
        /\ Arrive(k, Request("transition_to", a, NA, t, "admin", "check",
                             status[a], submitted_at[a], None, NA))
        /\ UNCHANGED <<appVars, audit, revVars, now, criteria, accounts, last>>

\* transition_to, the check on the loaded instance.
transition_check ==
    \E k \in Serving("check") :
        /\ inflight[k].op = "transition_to"
        /\ IF can_transition_to(inflight[k].mem_status, inflight[k].target)
           THEN Goto(k, "save") /\ last' = last
           ELSE Return(k, "StateTransitionError")
        /\ UNCHANGED <<appVars, audit, revVars, now, steps, criteria, accounts>>

\* transition_to, the assignments to the instance and
\* application.save(update_fields=['status', 'submitted_at', 'updated_at']).
transition_save ==
    \E k \in Serving("save") :
        LET q == inflight[k]
        IN  /\ status' = [status EXCEPT ![q.app] = q.target]
            /\ submitted_at' = [submitted_at EXCEPT
                    ![q.app] = StampSubmittedAt(q.mem_submitted_at, q.target, now)]
            /\ now' = IF submitted_at'[q.app] # q.mem_submitted_at THEN now + 1 ELSE now
            /\ Goto(k, "audit")
            /\ UNCHANGED <<pending_revisions, appeals, audit, revVars, steps,
                           criteria, accounts, last>>

\* transition_to, _create_audit_log with the old_status of the instance.
transition_audit ==
    \E k \in Serving("audit") :
        LET q == inflight[k]
        IN  /\ q.op = "transition_to"
            /\ audit' = Append(audit, StateChangeEntry(q.actor, q.app, q.mem_status, q.target))
            /\ Return(k, "ok")
            /\ UNCHANGED <<appVars, revVars, now, steps, criteria, accounts>>

\* A caller loads the reviewer (User.objects.get in bulk_assign_reviewers)
\* and calls assign_reviewer.
begin_assign ==
    \E k \in RequestIds, a \in Apps, r \in Reviewers :
        /\ "admin" \in accounts
        /\ Arrive(k, Request("assign_reviewer", a, r, NA, "admin", "check",
                             NA, None, current_load[r], NA))
        /\ UNCHANGED <<appVars, audit, revVars, now, criteria, accounts, last>>

\* assign_reviewer, the two exists() checks.
assign_check ==
    \E k \in Serving("check") :
        LET q == inflight[k]
        IN  /\ q.op = "assign_reviewer"
            /\ IF HasCOI(q.app, q.reviewer) THEN Return(k, "ConflictOfInterest")
               ELSE IF AlreadyAssigned(q.app, q.reviewer) THEN Return(k, "DuplicateAssignment")
               ELSE Goto(k, "create") /\ last' = last
            /\ UNCHANGED <<appVars, audit, revVars, now, steps, criteria, accounts>>

\* assign_reviewer, ReviewAssignment.objects.create: the unique index on
\* (application, reviewer) refuses a second row with IntegrityError.
assign_create ==
    \E k \in Serving("create") :
        LET q == inflight[k]
        IN  /\ IF AssignmentUnique(q.app, q.reviewer)
               THEN /\ assignments' = assignments \cup
                          {[id |-> NewId(assignments), application |-> q.app,
                            reviewer |-> q.reviewer, status |-> "ASSIGNED"]}
                    /\ Goto(k, "load")
                    /\ last' = last
               ELSE /\ assignments' = assignments
                    /\ Return(k, "IntegrityError")
            /\ UNCHANGED <<appVars, audit, reviews, coi_flags, current_load, now,
                           steps, criteria, accounts>>

\* assign_reviewer, reviewer.increment_load(): the loaded value plus one is
\* saved.
assign_increment_load ==
    \E k \in Serving("load") :
        LET q == inflight[k]
        IN  /\ current_load' = [current_load EXCEPT ![q.reviewer] = increment_load(q.mem_load)]
            /\ Goto(k, "audit")
            /\ UNCHANGED <<appVars, audit, assignments, reviews, coi_flags, now,
                           steps, criteria, accounts, last>>

\* assign_reviewer, create_audit_log.
assign_audit ==
    \E k \in Serving("audit") :
        LET q == inflight[k]
        IN  /\ q.op = "assign_reviewer"
            /\ audit' = Append(audit, ReviewAssignedEntry(q.actor, q.app, q.reviewer))
            /\ Return(k, "ok")
            /\ UNCHANGED <<appVars, revVars, now, steps, criteria, accounts>>

\* unassign_reviewer on a loaded assignment: reviewer = assignment.reviewer
\* loads the user row.
begin_unassign ==
    \E k \in RequestIds, x \in assignments :
        /\ "admin" \in accounts
        /\ Arrive(k, Request("unassign_reviewer", x.application, x.reviewer, NA, "admin",
                             "decrement", NA, None, current_load[x.reviewer], x))
        /\ UNCHANGED <<appVars, audit, revVars, now, criteria, accounts, last>>

\* unassign_reviewer, reviewer.decrement_load(): when the loaded value is
\* positive, that value minus one is saved; nothing is saved otherwise.
unassign_decrement_load ==
    \E k \in Serving("decrement") :
        LET q == inflight[k]
        IN  /\ current_load' = IF q.mem_load > 0
                               THEN [current_load EXCEPT ![q.reviewer] = decrement_load(q.mem_load)]
                               ELSE current_load
            /\ Goto(k, "unassign_audit")
            /\ UNCHANGED <<appVars, audit, assignments, reviews, coi_flags, now,
                           steps, criteria, accounts, last>>

\* unassign_reviewer, create_audit_log.
unassign_audit ==
    \E k \in Serving("unassign_audit") :
        LET q == inflight[k]
        IN  /\ audit' = Append(audit, UnassignedEntry(q.actor, q.app, q.reviewer))
            /\ Goto(k, "delete")
            /\ UNCHANGED <<appVars, revVars, now, steps, criteria, accounts, last>>

\* unassign_reviewer, assignment.delete() (a DELETE by primary key; the
\* Review row goes with it).
unassign_delete ==
    \E k \in Serving("delete") :
        LET q == inflight[k]
        IN  /\ assignments' = {y \in assignments : y.id # q.row.id}
            /\ reviews' = [i \in DOMAIN reviews \ {q.row.id} |-> reviews[i]]
            /\ Return(k, "ok")
            /\ UNCHANGED <<appVars, audit, coi_flags, current_load, now, steps,
                           criteria, accounts>>

(* ------------------------------ admin site ----------------------------- *)
\* The admin site's change form for Criterion (CriterionAdmin): weight and
\* max_score are editable, within their validators.
admin_edit_criterion ==
    \E c \in Criteria, w \in {0, 30, 70}, m \in {3, 10} :
        /\ "admin" \in accounts
        /\ steps < MaxSteps
        /\ steps' = steps + 1
        /\ criteria' = [criteria EXCEPT ![c].weight = w, ![c].max_score = m]
        /\ criteria' # criteria
        /\ last' = Call("admin_edit_criterion", None, NA, NA, "admin", "ok")
        /\ UNCHANGED <<appVars, audit, revVars, now, accounts, inflight>>

\* The admin site's delete view for User (UserAdmin, registered with the
\* stock delete permission), on the account of an administrator: a user who
\* owns no application and reviews nothing, so that the delete cascades to no
\* row the admin site protects.  The rows that point at the user with
\* on_delete=SET_NULL are updated.
admin_delete_user ==
    \E u \in accounts \ {"applicant"} :
        /\ steps < MaxSteps
        /\ steps' = steps + 1
        /\ accounts' = accounts \ {u}
        /\ audit' = actor_set_null(audit, u)
        /\ last' = Call("admin_delete_user", None, NA, NA, u, "ok")
        /\ UNCHANGED <<appVars, revVars, now, criteria, inflight>>

\* The calls of the application's own views and services.
Next ==
    \/ application_create
    \/ TransitionTo
    \/ application_submit
    \/ wizard_submit
    \/ file_appeal
    \/ request_revision
    \/ submit_revision
    \/ AssignReviewer
    \/ bulk_assign_reviewers
    \/ get_recommended_reviewers
    \/ check_potential_coi
    \/ unassign_reviewer
    \/ declare_coi
    \/ resolve_coi
    \/ review_interface
    \/ save_review_score
    \/ review_submit
    \/ admin_delete_user
    \/ admin_edit_criterion

Spec == Init /\ [][Next]_vars

\* The state machine alone: applications are created, in any status (the
\* admin site's add form), and moved by transition_to only (directly or
\* through application_submit).
NextSM ==
    \/ application_create
    \/ admin_add_application
    \/ TransitionTo
    \/ application_submit

SpecSM == Init /\ [][NextSM]_vars

\* The review side alone: applications are created as drafts, and reviewers
\* are assigned, unassigned, flagged and do their reviews.
NextAssign ==
    \/ application_create
    \/ AssignReviewer
    \/ unassign_reviewer
    \/ declare_coi
    \/ resolve_coi
    \/ review_interface
    \/ save_review_score
    \/ review_submit

SpecAssign == Init /\ [][NextAssign]_vars

\* Every handler that assigns Application.status, on applications made by
\* the applicant's own views, with the assignments and reviews that the
\* advance to REVIEWED needs.
NextStatus ==
    \/ application_create
    \/ TransitionTo
    \/ application_submit
    \/ wizard_submit
    \/ file_appeal
    \/ request_revision
    \/ submit_revision
    \/ AssignReviewer
    \/ review_interface
    \/ review_submit

SpecStatus == Init /\ [][NextStatus]_vars

\* The assignment engine and the COI service: assign_reviewer,
\* bulk_assign_reviewers, unassign_reviewer and declare_coi on draft
\* applications.
NextEngine ==
    \/ application_create
    \/ AssignReviewer
    \/ bulk_assign_reviewers
    \/ unassign_reviewer
    \/ declare_coi

SpecEngine == Init /\ [][NextEngine]_vars

\* Batches of assignments on applications some reviewers have declared a
\* conflict with.
NextBulk ==
    \/ application_create
    \/ declare_coi
    \/ bulk_assign_reviewers

SpecBulk == Init /\ [][NextBulk]_vars

\* The review lifecycle: reviewers are assigned in batches, save their
\* scores one at a time and submit.
NextReview ==
    \/ application_create
    \/ bulk_assign_reviewers
    \/ save_review_score
    \/ review_submit

SpecReview == Init /\ [][NextReview]_vars

\* The recommendation of reviewers, over the stores that assignments and
\* COI flags (declared, resolved) produce.
NextRecommend ==
    \/ application_create
    \/ AssignReviewer
    \/ declare_coi
    \/ resolve_coi
    \/ get_recommended_reviewers

SpecRecommend == Init /\ [][NextRecommend]_vars

\* The advisory conflict check, over the stores that assignments and
\* declared conflicts produce.
NextAdvisory ==
    \/ application_create
    \/ AssignReviewer
    \/ declare_coi
    \/ check_potential_coi

SpecAdvisory == Init /\ [][NextAdvisory]_vars

\* The writers of the audit log (transition_to, assign_reviewer,
\* unassign_reviewer) and the admin site's delete of a user.
NextAudit ==
    \/ application_create
    \/ TransitionTo
    \/ application_submit
    \/ AssignReviewer
    \/ unassign_reviewer
    \/ admin_delete_user

SpecAudit == Init /\ [][NextAudit]_vars

\* The store after application_create and assign_reviewer of both reviewers
\* to the application: a panel of two at work.
InitPanel ==
    /\ status = <<"DRAFT">>
    /\ submitted_at = <<None>>
    /\ pending_revisions = <<0>>
    /\ appeals = <<0>>
    /\ assignments = {[id |-> 1, application |-> 1, reviewer |-> "r1", status |-> "ASSIGNED"],
                      [id |-> 2, application |-> 1, reviewer |-> "r2", status |-> "ASSIGNED"]}
    /\ audit = <<ReviewAssignedEntry("admin", 1, "r1"), ReviewAssignedEntry("admin", 1, "r2")>>
    /\ reviews = <<>>
    /\ coi_flags = {}
    /\ current_load = [r \in Reviewers |-> 1]
    /\ criteria = SeedRubric
    /\ accounts = Users
    /\ inflight = <<>>
    /\ now = 1
    /\ steps = 0
    /\ last = Call("assign_reviewer", 1, "r2", NA, "admin", "ok")

\* The panel's work: scores are saved, the rubric is edited, reviews are
\* submitted, reviewers are unassigned or declare a conflict.
NextPanel ==
    \/ save_review_score
    \/ review_interface
    \/ admin_edit_criterion
    \/ review_submit
    \/ unassign_reviewer
    \/ declare_coi

SpecPanel == InitPanel /\ [][NextPanel]_vars

\* The panel's scoring alone: scores are posted, the rubric is edited,
\* reviews are submitted.
NextScoring ==
    \/ review_interface
    \/ admin_edit_criterion
    \/ review_submit

SpecScoring == InitPanel /\ [][NextScoring]_vars

\* The three views that notify after their service call, on the panel's
\* application.
NextNotify ==
    \/ application_submit
    \/ review_interface
    \/ review_submit
    \/ declare_coi

SpecNotify == InitPanel /\ [][NextNotify]_vars

\* The two load methods called directly, in any order, on any reviewer.
NextLoad ==
    \/ IncrementLoad
    \/ DecrementLoad

SpecLoad == InitLoad /\ [][NextLoad]_vars

\* transition_to calls served at once, on applications in any status.
NextConcurrentSM ==
    \/ application_create
    \/ admin_add_application
    \/ begin_transition
    \/ transition_check
    \/ transition_save
    \/ transition_audit

SpecConcurrentSM == Init /\ [][NextConcurrentSM]_vars

\* assign_reviewer and unassign_reviewer calls served at once.
NextConcurrentAssign ==
    \/ application_create
    \/ begin_assign
    \/ assign_check
    \/ assign_create
    \/ assign_increment_load
    \/ assign_audit
    \/ begin_unassign
    \/ unassign_decrement_load
    \/ unassign_audit
    \/ unassign_delete

SpecConcurrentAssign == Init /\ [][NextConcurrentAssign]_vars

(* ======================= properties of the state machine ================ *)
\* The calls that run ApplicationStateMachine.transition_to.
TransitionOps == {"transition_to", "application_submit"}
\* The outcomes of a call that was refused before it wrote anything.
Refused == {"StateTransitionError", "denied"}

\* C1: a transition_to call succeeds only when its target is in the table's
\* allowed set for the current status; a refused call leaves every status as
\* it was; every status such a call changes moves along an edge of the table
\* and every status is one of the 14 of the enum.
C1_Step ==
    /\ \A a \in DOMAIN status' : status'[a] \in ApplicationStatus
    /\ last'.op \in TransitionOps =>
          /\ last'.result = "ok" =>
                /\ last'.target \in STATE_TRANSITIONS[status[last'.app]]
                /\ status'[last'.app] = last'.target
          /\ last'.result \in Refused => status' = status
          /\ \A a \in Apps :
                status'[a] # status[a] => status'[a] \in STATE_TRANSITIONS[status[a]]
C1_OnlyTableTransitions == [][C1_Step]_vars

\* A transition_to call has moved an application into ARCHIVED.
C1_Witness ==
    /\ last.op = "transition_to"
    /\ last.result = "ok"
    /\ last.target = "ARCHIVED"
    /\ status[last.app] = "ARCHIVED"

\* C2: every change of an application's status, by whichever handler, goes
\* from a status to one of its allowed targets in the table.
C2_EveryChangeIsAnEdge ==
    [][\A a \in Apps :
          status'[a] # status[a] => status'[a] \in STATE_TRANSITIONS[status[a]]]_vars

\* C3: a successful transition_to(SUBMITTED) on an application whose
\* submitted_at is unset stamps it with the current time, and a submitted_at
\* that is set never changes again.
C3_Step ==
    /\ \A a \in Apps : submitted_at[a] # None => submitted_at'[a] = submitted_at[a]
    /\ ( /\ last'.op \in TransitionOps
         /\ last'.result = "ok"
         /\ last'.target = "SUBMITTED"
         /\ submitted_at[last'.app] = None )
       => submitted_at'[last'.app] = now /\ now # None
C3_SubmittedAtSetOnce == [][C3_Step]_vars

\* The STATE_CHANGE rows of application a whose new status is SUBMITTED.
SubmissionsOf(a) ==
    {i \in DOMAIN audit : /\ audit[i].application = a
                          /\ audit[i].action_type = "STATE_CHANGE"
                          /\ audit[i].new_status = "SUBMITTED"}

\* An application has been moved to SUBMITTED by transition_to a second time,
\* after the clock has moved past its stamp.
C3_Witness ==
    /\ last.op \in TransitionOps
    /\ last.result = "ok"
    /\ last.target = "SUBMITTED"
    /\ Cardinality(SubmissionsOf(last.app)) >= 2
    /\ submitted_at[last.app] # None
    /\ submitted_at[last.app] < now

\* C4: a successful transition_to call appends exactly one STATE_CHANGE row
\* carrying the status before the call, the target and the given actor; a
\* refused call appends nothing.
C4_Step ==
    last'.op \in TransitionOps =>
        /\ last'.result = "ok" =>
              audit' = Append(audit,
                  [action_type |-> "STATE_CHANGE", actor |-> last'.actor,
                   application |-> last'.app, old_status |-> status[last'.app],
                   new_status |-> last'.target, reviewer |-> NA, action |-> NA])
        /\ last'.result \in Refused => audit' = audit
C4_OneAuditRowPerTransition == [][C4_Step]_vars

\* The applicant has submitted an application and the newest audit row is
\* the applicant's DRAFT -> SUBMITTED change.
C4_Witness ==
    /\ last.op = "application_submit"
    /\ last.result = "ok"
    /\ last.actor = "applicant"
    /\ Len(audit) > 0
    /\ audit[Len(audit)].actor = "applicant"
    /\ audit[Len(audit)].old_status = "DRAFT"
    /\ audit[Len(audit)].new_status = "SUBMITTED"

\* C5: when the append of the STATE_CHANGE row fails, the stored status and
\* submitted_at are what they were before the call.
C5_AllOrNothing ==
    [][(last'.op \in TransitionOps /\ last'.result = "error")
          => (status' = status /\ submitted_at' = submitted_at)]_vars

(* ==================== properties of the assignment engine =============== *)
\* C6: assign_reviewer on a pair that has no flag and no assignment, when it
\* succeeds, raises the reviewer's load by 1; on a pair that already has an
\* assignment it ends with the duplicate-assignment refusal and changes no
\* assignment, no load and no audit row; no pair ever has two assignments.
C6_Step ==
    last'.op = "assign_reviewer" =>
        LET a == last'.app
            r == last'.reviewer
        IN  /\ last'.result = "ok" =>
                  /\ AssignmentsOf(a, r) = {}
                  /\ current_load'[r] = current_load[r] + 1
            /\ (AssignmentsOf(a, r) # {} /\ FlagsOf(a, r) = {}) =>
                  /\ last'.result = "DuplicateAssignment"
                  /\ assignments' = assignments
                  /\ current_load' = current_load
                  /\ audit' = audit
AtMostOneAssignmentPerPair ==
    \A a \in Apps, r \in Reviewers : Cardinality(AssignmentsOf(a, r)) <= 1
C6_NoDuplicateAssignment == [][C6_Step]_vars /\ []AtMostOneAssignmentPerPair

\* A second assign_reviewer for a pair was refused as a duplicate, the load
\* still being the 1 the first call left.
C6_Witness ==
    /\ last.op = "assign_reviewer"
    /\ last.result = "DuplicateAssignment"
    /\ Cardinality(AssignmentsOf(last.app, last.reviewer)) = 1
    /\ current_load[last.reviewer] = 1

\* C7: assign_reviewer on a pair with an unresolved COIFlag ends with the
\* conflict-of-interest refusal and changes no assignment, no load and no
\* audit row.
C7_Step ==
    ( /\ last'.op = "assign_reviewer"
      /\ \E f \in FlagsOf(last'.app, last'.reviewer) : ~f.is_resolved )
    => /\ last'.result = "ConflictOfInterest"
       /\ assignments' = assignments
       /\ current_load' = current_load
       /\ audit' = audit
C7_ConflictBlocksAssignment == [][C7_Step]_vars

\* assign_reviewer was refused for a pair whose flag is unresolved.
C7_Witness ==
    /\ last.op = "assign_reviewer"
    /\ last.result = "ConflictOfInterest"
    /\ \E f \in FlagsOf(last.app, last.reviewer) : ~f.is_resolved
    /\ AssignmentsOf(last.app, last.reviewer) = {}

\* C8: a successful assign_reviewer call adds exactly one assignment row, for
\* the pair and in status ASSIGNED, raises that reviewer's load by exactly 1
\* and no other load, appends exactly one REVIEW_ASSIGNED row for the
\* application and changes no application's status.
C8_Step ==
    (last'.op = "assign_reviewer" /\ last'.result = "ok") =>
        LET a == last'.app
            r == last'.reviewer
        IN  /\ assignments \subseteq assignments'
            /\ Cardinality(assignments' \ assignments) = 1
            /\ \A x \in assignments' \ assignments :
                  x.application = a /\ x.reviewer = r /\ x.status = "ASSIGNED"
            /\ current_load' = [current_load EXCEPT ![r] = @ + 1]
            /\ Len(audit') = Len(audit) + 1
            /\ SubSeq(audit', 1, Len(audit)) = audit
            /\ audit'[Len(audit')].action_type = "REVIEW_ASSIGNED"
            /\ audit'[Len(audit')].application = a
            /\ audit'[Len(audit')].reviewer = r
            /\ status' = status
C8_AssignEffects == [][C8_Step]_vars

\* A reviewer was assigned while another reviewer already carried load.
C8_Witness ==
    /\ last.op = "assign_reviewer"
    /\ last.result = "ok"
    /\ current_load[last.reviewer] = 1
    /\ \E r \in Reviewers \ {last.reviewer} : current_load[r] = 1

\* C9: unassign_reviewer lowers the reviewer's load by 1, leaving 0 at 0,
\* appends one audit row for the application and deletes the assignment with
\* its review; the earlier audit rows stay; and when the call breaks off, the
\* assignment is never gone without the audit row and the decrement.
C9_Step ==
    last'.op = "unassign_reviewer" =>
        LET a == last'.app
            r == last'.reviewer
            lowered == [current_load EXCEPT
                           ![r] = IF current_load[r] = 0 THEN 0 ELSE current_load[r] - 1]
            logged == /\ Len(audit') = Len(audit) + 1
                      /\ SubSeq(audit', 1, Len(audit)) = audit
                      /\ audit'[Len(audit')].application = a
                      /\ audit'[Len(audit')].reviewer = r
        IN  /\ last'.result = "ok" =>
                  /\ current_load' = lowered
                  /\ logged
                  /\ Cardinality(assignments \ assignments') = 1
                  /\ assignments' \subseteq assignments
                  /\ AssignmentsIn(assignments', a, r) = {}
                  /\ \A x \in assignments \ assignments' : x.id \notin DOMAIN reviews'
            /\ assignments' # assignments => (logged /\ current_load' = lowered)
C9_UnassignEffects == [][C9_Step]_vars

\* An assignment was removed by unassign_reviewer and the REVIEW_ASSIGNED
\* row of its creation is still in the log, before the row of the removal.
C9_Witness ==
    /\ last.op = "unassign_reviewer"
    /\ last.result = "ok"
    /\ AssignmentsOf(last.app, last.reviewer) = {}
    /\ \E i \in DOMAIN audit :
          /\ audit[i].action_type = "REVIEW_ASSIGNED"
          /\ audit[i].application = last.app
          /\ audit[i].reviewer = last.reviewer
    /\ audit[Len(audit)].action = "reviewer_unassigned"

\* C10: after declare_coi the pair has a COIFlag; when it had an assignment,
\* the assignment is gone and the reviewer's load is 1 lower than before;
\* when it had none, no assignment and no load has changed.
C10_Step ==
    (last'.op = "declare_coi" /\ last'.result = "ok") =>
        LET a == last'.app
            r == last'.reviewer
        IN  /\ FlagsIn(coi_flags', a, r) # {}
            /\ IF AssignmentsOf(a, r) # {}
               THEN /\ AssignmentsIn(assignments', a, r) = {}
                    /\ current_load' = [current_load EXCEPT ![r] = @ - 1]
               ELSE /\ assignments' = assignments
                    /\ current_load' = current_load
C10_DeclareCoiEffects == [][C10_Step]_vars

(* ============== properties of the COI service and the reviews =========== *)
\* C11: in every reachable state no (reviewer, application) pair has both an
\* unresolved COIFlag and an assignment.
C11_NoFlagWithAssignment ==
    \A a \in Apps, r \in Reviewers :
        ~ ( /\ \E f \in FlagsOf(a, r) : ~f.is_resolved
            /\ AssignmentsOf(a, r) # {} )

\* The assignment rows of the pair the last call was about.
LastAssignments == AssignmentsOf(last.app, last.reviewer)

\* C12: review_submit on a review that lacks the score of a required
\* criterion ends with the incomplete-review error (ValueError) and changes
\* no review (a DRAFT review stays DRAFT, submitted_at and overall_score as
\* they were), no assignment and no application status.
C12_Step ==
    ( /\ last'.op = "review_submit"
      /\ \E x \in AssignmentsOf(last'.app, last'.reviewer) :
            /\ x.id \in DOMAIN reviews
            /\ \E c \in DOMAIN criteria :
                  criteria[c].is_required /\ c \notin DOMAIN reviews[x.id].scores )
    => /\ last'.result = "ValueError"
       /\ reviews' = reviews
       /\ assignments' = assignments
       /\ status' = status
C12_IncompleteSubmitRefused == [][C12_Step]_vars

\* A reviewer who scored only the criterion that is not required was
\* refused; the review is still a DRAFT without submitted_at.
C12_Witness ==
    /\ last.op = "review_submit"
    /\ last.result = "ValueError"
    /\ \E x \in LastAssignments :
          /\ x.id \in DOMAIN reviews
          /\ DOMAIN reviews[x.id].scores = {"c2"}
          /\ reviews[x.id].status = "DRAFT"
          /\ reviews[x.id].submitted_at = None
          /\ x.status = "ASSIGNED"

\* C13: a successful review submission leaves the application REVIEWED when,
\* after it, the application has an assignment and all its assignments are
\* COMPLETED; otherwise it leaves the application's status as it was; no
\* other application's status changes.
C13_Step ==
    (last'.op = "review_submit" /\ last'.result = "ok") =>
        LET a == last'.app
            mine == {y \in assignments' : y.application = a}
        IN  /\ status'[a] = IF mine # {} /\ \A y \in mine : y.status = "COMPLETED"
                            THEN "REVIEWED" ELSE status[a]
            /\ \A b \in Apps \ {a} : status'[b] = status[b]
C13_ReviewedWhenAllCompleted == [][C13_Step]_vars

\* One of two reviewers of an application has submitted: the other
\* assignment is still open and the application is not REVIEWED.
C13_Witness ==
    /\ last.op = "review_submit"
    /\ last.result = "ok"
    /\ \E x \in LastAssignments : x.status = "COMPLETED"
    /\ \E y \in assignments : y.application = last.app /\ y.status = "ASSIGNED"
    /\ status[last.app] = "DRAFT"

(* ======================= properties of the rubric ======================= *)
RECURSIVE ProductOver(_, _)
ProductOver(f, D) ==
    IF D = {} THEN 1
    ELSE LET c == CHOOSE x \in D : TRUE IN f[c] * ProductOver(f, D \ {c})

\* The value the claim's formula gives for a score map, as a fraction in
\* lowest terms: 100 * (sum over the criteria of score / max_score * weight)
\* / total weight, over the common denominator of the criteria.
ExactScore(scores) ==
    LET D == DOMAIN criteria
        maxes == [c \in D |-> criteria[c].max_score]
        all == ProductOver(maxes, D)
        part == [c \in D |->
                    (IF c \in DOMAIN scores THEN scores[c] ELSE 0)
                        * criteria[c].weight * (all \div criteria[c].max_score)]
        total == SumOver([c \in D |-> criteria[c].weight], D)
    IN  Frac(100 * SumOver(part, D), total * all)

\* The rubric of the spec's example (weight 30 / max 10, weight 70 / max 10).
ExampleRubric ==
    /\ DOMAIN criteria = {"c1", "c2"}
    /\ criteria["c1"].weight = 30 /\ criteria["c1"].max_score = 10
    /\ criteria["c2"].weight = 70 /\ criteria["c2"].max_score = 10

\* C14: for a rubric of positive total weight calculate_weighted_score
\* returns 100 * (sum of score / max_score * weight) / total weight, a
\* criterion without an entry counting 0; for the example rubric and the
\* scores 8 and 6 it returns 66.
C14_WeightedScoreFormula ==
    ( /\ last.op = "calculate_weighted_score"
      /\ \E c \in DOMAIN criteria : criteria[c].weight > 0 )
    => /\ last.result = ExactScore(last.scores)
       /\ (ExampleRubric /\ last.scores = [c \in {"c1", "c2"} |-> IF c = "c1" THEN 8 ELSE 6])
             => last.result = <<66, 1>>

\* The example: scores 8 and 6 under the example rubric gave 66.
C14_Witness ==
    /\ last.op = "calculate_weighted_score"
    /\ ExampleRubric
    /\ last.scores = [c \in {"c1", "c2"} |-> IF c = "c1" THEN 8 ELSE 6]
    /\ last.result = <<66, 1>>

\* C15: the weighted score of the scores stored in any review lies between
\* 0 and 100.
C15_StoredScoreInRange ==
    \A i \in DOMAIN reviews :
        LET q == calculate_weighted_score(reviews[i].scores)
        IN  q[2] > 0 /\ 0 <= q[1] /\ q[1] <= 100 * q[2]

\* C16: for a rubric whose total weight is 0 (no criteria or only
\* zero-weight criteria) calculate_weighted_score returns 0 for every score
\* map, and no division fails.
C16_ZeroWeightGivesZero ==
    ( /\ last.op = "calculate_weighted_score"
      /\ \A c \in DOMAIN criteria : criteria[c].weight = 0 )
    => (last.result = <<0, 1>> /\ last.result # DivisionByZero)

\* A rubric with criteria, all of weight 0, scored a non-empty map 0.
C16_Witness ==
    /\ last.op = "calculate_weighted_score"
    /\ DOMAIN criteria # {}
    /\ \A c \in DOMAIN criteria : criteria[c].weight = 0
    /\ DOMAIN last.scores \cap DOMAIN criteria # {}
    /\ last.result = <<0, 1>>

\* The score map without its entry for criterion c.
Without(scores, c) == [k \in DOMAIN scores \ {c} |-> scores[k]]

\* C17: is_complete is true exactly when every required criterion of the
\* rubric has an entry in the score map; dropping or adding the entry of a
\* criterion that is not required does not change it.
C17_CompleteIffRequiredScored ==
    last.op = "is_complete" =>
        /\ last.result =
              ({c \in DOMAIN criteria : criteria[c].is_required} \subseteq DOMAIN last.scores)
        /\ \A c \in DOMAIN criteria :
              ~criteria[c].is_required =>
                  /\ is_complete(Without(last.scores, c)) = last.result
                  /\ is_complete([k \in DOMAIN last.scores \cup {c} |->
                                     IF k = c THEN 6 ELSE last.scores[k]]) = last.result

\* A review with its required criterion scored and its optional one not
\* was found complete.
C17_Witness ==
    /\ last.op = "is_complete"
    /\ last.result = TRUE
    /\ \E c \in DOMAIN criteria : criteria[c].is_required /\ c \in DOMAIN last.scores
    /\ \E c \in DOMAIN criteria : ~criteria[c].is_required /\ c \notin DOMAIN last.scores

(* ================= properties of the batch and the ranking ============== *)
\* The elements of ids at the positions that satisfy keep, in list order.
SubList(ids, keep(_)) ==
    LET F[i \in 0..Len(ids)] ==
            IF i = 0 THEN <<>>
            ELSE IF keep(i) THEN Append(F[i - 1], ids[i]) ELSE F[i - 1]
    IN  F[Len(ids)]

\* C18: a bulk_assign_reviewers call that returns has done what one
\* assign_reviewer call per id, in list order, does: an id is assigned when
\* it is a reviewer's, the pair has no COI flag and no assignment, and the
\* id did not occur earlier in the list; each such id gets one ASSIGNED row,
\* one more load and one REVIEW_ASSIGNED row, in list order; every other id
\* is on the error list and stops nothing; each position of the list is in
\* exactly one of the two returned lists.
C18_Step ==
    (last'.op = "bulk_assign_reviewers" /\ last'.result = "ok") =>
        LET a == last'.app
            ids == last'.ids
            Succeeds(i) == /\ ids[i] \in Reviewers
                           /\ FlagsOf(a, ids[i]) = {}
                           /\ AssignmentsOf(a, ids[i]) = {}
                           /\ \A j \in 1..(i - 1) : ids[j] # ids[i]
            Fails(i) == ~Succeeds(i)
            added == assignments' \ assignments
        IN  \A good \in {SubList(ids, Succeeds)} :
            /\ last'.assigned = good
            /\ [k \in DOMAIN last'.errors |-> last'.errors[k][1]] = SubList(ids, Fails)
            /\ Len(last'.assigned) + Len(last'.errors) = Len(ids)
            /\ assignments \subseteq assignments'
            /\ Cardinality(added) = Len(good)
            /\ \A x \in added : x.application = a /\ x.status = "ASSIGNED"
            /\ {x.reviewer : x \in added} = {good[k] : k \in DOMAIN good}
            /\ current_load' =
                  [r \in Reviewers |->
                      current_load[r] + (IF \E k \in DOMAIN good : good[k] = r THEN 1 ELSE 0)]
            /\ Len(audit') = Len(audit) + Len(good)
            /\ SubSeq(audit', 1, Len(audit)) = audit
            /\ \A k \in DOMAIN good :
                  /\ audit'[Len(audit) + k].action_type = "REVIEW_ASSIGNED"
                  /\ audit'[Len(audit) + k].application = a
                  /\ audit'[Len(audit) + k].reviewer = good[k]
C18_BulkIsAssignPerId == [][C18_Step]_vars

\* A batch whose first id was refused for a conflict of interest assigned
\* its second id.
C18_Witness ==
    /\ last.op = "bulk_assign_reviewers"
    /\ last.result = "ok"
    /\ Len(last.ids) = 2
    /\ Len(last.errors) = 1
    /\ last.errors[1] = <<last.ids[1], "ConflictOfInterest">>
    /\ last.assigned = <<last.ids[2]>>
    /\ AssignmentsOf(last.app, last.ids[2]) # {}
    /\ AssignmentsOf(last.app, last.ids[1]) = {}

\* The reviewers of a returned list.
ReturnedReviewers(returned) == {returned[i].reviewer : i \in DOMAIN returned}

\* C19: the candidates of get_recommended_reviewers are the active
\* reviewers with no unresolved COIFlag on the application and no assignment
\* to it (a call asking for at least as many as there are reviewers returns
\* the whole pool).
C19_PoolExcludesUnresolvedOnly ==
    ( /\ last.op = "get_recommended_reviewers"
      /\ last.num >= Cardinality(Reviewers) )
    => ReturnedReviewers(last.returned) =
          {r \in Reviewers :
              /\ \A f \in FlagsOf(last.app, r) : f.is_resolved
              /\ AssignmentsOf(last.app, r) = {}}

\* 1200 times the claim's 0.6 * expertise_score + 0.4 * load_score of
\* reviewer r for application a, an integer.
Combined1200(a, r) ==
    LET both == tags[a] \cap expertise_tags[r]
        any == tags[a] \cup expertise_tags[r]
        jaccard720 == IF tags[a] = {} \/ expertise_tags[r] = {} THEN 0
                      ELSE (720 * Cardinality(both)) \div Cardinality(any)
        capped == IF current_load[r] < 20 THEN current_load[r] ELSE 20
    IN  jaccard720 + 24 * (20 - capped)

\* The position of reviewer r in the input order.
InputPosition(r) == CHOOSE i \in DOMAIN ReviewerOrder : ReviewerOrder[i] = r

\* C20: get_recommended_reviewers returns min(count, pool size) candidates
\* of the pool, each once, with combined_score = 0.6 * expertise_score +
\* 0.4 * load_score, in non-increasing order of it; no candidate left out
\* has a higher combined_score than one returned; candidates of equal
\* combined_score stay in input order; and the call changes nothing.
C20_Step ==
    last'.op = "get_recommended_reviewers" =>
        LET a == last'.app
            res == last'.returned
            candidates == {pool(a)[i] : i \in DOMAIN pool(a)}
            inside == ReturnedReviewers(res)
            Before(r1, r2) ==
                \/ Combined1200(a, r1) > Combined1200(a, r2)
                \/ /\ Combined1200(a, r1) = Combined1200(a, r2)
                   /\ InputPosition(r1) < InputPosition(r2)
        IN  /\ Len(res) = IF last'.num < Cardinality(candidates)
                          THEN last'.num ELSE Cardinality(candidates)
            /\ inside \subseteq candidates
            /\ Cardinality(inside) = Len(res)
            /\ \A i \in DOMAIN res :
                  res[i].combined_score[1] * 1200
                      = Combined1200(a, res[i].reviewer) * res[i].combined_score[2]
            /\ \A i, j \in DOMAIN res : i < j => Before(res[i].reviewer, res[j].reviewer)
            /\ \A r \in candidates \ inside : \A i \in DOMAIN res : Before(res[i].reviewer, r)
            /\ UNCHANGED <<appVars, audit, revVars, now, steps, criteria, accounts, inflight>>
C20_RankedRecommendations == [][C20_Step]_vars

\* Asked for one reviewer out of a pool of two, the call returned the one
\* that comes second in input order: the first carries load.
C20_Witness ==
    /\ last.op = "get_recommended_reviewers"
    /\ last.num = 1
    /\ Len(pool(last.app)) = 2
    /\ Len(last.returned) = 1
    /\ last.returned[1].reviewer = ReviewerOrder[2]
    /\ current_load[ReviewerOrder[1]] > current_load[ReviewerOrder[2]]

(* ================= the audit log, concurrency and loads ================= *)
\* C21: the audit log is append-only: every step of the program keeps every
\* audit row there is, with its actor, application, action_type and details
\* unchanged, and at most adds rows after them.
C21_Step ==
    /\ Len(audit') >= Len(audit)
    /\ SubSeq(audit', 1, Len(audit)) = audit
C21_AuditAppendOnly == [][C21_Step]_vars

\* The number of STATE_CHANGE rows of application a in the log.
StateChanges(log, a) ==
    Cardinality({i \in DOMAIN log :
                    log[i].action_type = "STATE_CHANGE" /\ log[i].application = a})

\* C22: every call that returns and changes the status of an application
\* appends one STATE_CHANGE row for it, and a call that leaves the status
\* alone appends none: per application the number of STATE_CHANGE rows is
\* the number of its status changes.
C22_Step ==
    last'.result = "ok" =>
        \A a \in Apps :
            StateChanges(audit', a) =
                StateChanges(audit, a) + (IF status'[a] # status[a] THEN 1 ELSE 0)
C22_EveryStatusChangeAudited == [][C22_Step]_vars

\* The requests that have returned, and those among them of one operation.
Returned == {k \in DOMAIN inflight : inflight[k].pc = "done"}
ReturnedOf(op) == {k \in Returned : inflight[k].op = op}

\* The number of REVIEW_ASSIGNED rows of the pair in the log.
ReviewAssignedRows(a, r) ==
    Cardinality({i \in DOMAIN audit :
                    /\ audit[i].action_type = "REVIEW_ASSIGNED"
                    /\ audit[i].application = a
                    /\ audit[i].reviewer = r})

\* C23: when two assign_reviewer calls for the same (reviewer, application)
\* pair, served at once or one after the other, have both returned, one has
\* created the assignment and the other has ended with the
\* duplicate-assignment failure; the pair has one assignment, the reviewer's
\* load has risen by 1 (from 0) and the log has one REVIEW_ASSIGNED row of
\* the pair.
C23_OneOfTwoAssigns ==
    \A k1 \in ReturnedOf("assign_reviewer"), k2 \in ReturnedOf("assign_reviewer") :
        ( /\ k1 # k2
          /\ inflight[k1].app = inflight[k2].app
          /\ inflight[k1].reviewer = inflight[k2].reviewer )
        => /\ {inflight[k1].result, inflight[k2].result} = {"ok", "DuplicateAssignment"}
           /\ Cardinality(AssignmentsOf(inflight[k1].app, inflight[k1].reviewer)) = 1
           /\ current_load[inflight[k1].reviewer] = 1
           /\ ReviewAssignedRows(inflight[k1].app, inflight[k1].reviewer) = 1

\* C24: transition_to calls served at once on one application behave as if
\* run one after the other: a call saves its new status only while the
\* application still has the status the call checked, which is then the
\* old_status of its STATE_CHANGE row, and two calls whose targets are not
\* allowed from each other do not both succeed.
C24_Step ==
    /\ \A k \in Serving("save") :
          (k \in DOMAIN inflight' /\ inflight'[k].pc = "audit")
          => inflight[k].mem_status = status[inflight[k].app]
    /\ \A k1 \in DOMAIN inflight', k2 \in DOMAIN inflight' :
          ( /\ k1 # k2
            /\ inflight'[k1].app = inflight'[k2].app
            /\ inflight'[k1].result = "ok"
            /\ inflight'[k2].result = "ok" )
          => \/ can_transition_to(inflight'[k1].target, inflight'[k2].target)
             \/ can_transition_to(inflight'[k2].target, inflight'[k1].target)
C24_TransitionsSerialized == [][C24_Step]_vars

\* C25: when the requests, each about another application, have all
\* returned and succeeded, each reviewer's stored load (0 at the start) is
\* the number of assign_reviewer calls made for the reviewer minus the
\* number of unassign_reviewer calls.
C25_NoLostLoadUpdate ==
    ( /\ Returned = DOMAIN inflight
      /\ \A k \in Returned : inflight[k].result = "ok"
      /\ \A k1 \in Returned, k2 \in Returned :
            k1 # k2 => inflight[k1].app # inflight[k2].app )
    => \A r \in Reviewers :
          current_load[r] =
              Cardinality({k \in ReturnedOf("assign_reviewer") : inflight[k].reviewer = r})
              - Cardinality({k \in ReturnedOf("unassign_reviewer") : inflight[k].reviewer = r})

\* The assignment rows of reviewer r, and those of them still active.
AssignmentsOfReviewer(r) == {x \in assignments : x.reviewer = r}
ActiveAssignments(rows, r) ==
    {x \in rows : x.reviewer = r /\ x.status \in {"ASSIGNED", "IN_PROGRESS"}}

\* C26: with the calls of assign_reviewer, bulk_assign_reviewers,
\* unassign_reviewer and declare_coi run one at a time from the empty store,
\* in every reachable state each reviewer's current_load is the number of
\* assignment rows of that reviewer.
C26_LoadIsAssignmentCount ==
    \A r \in Reviewers : current_load[r] = Cardinality(AssignmentsOfReviewer(r))

\* C27: a review_submit that succeeds keeps current_load equal to the number
\* of the reviewer's active assignments (ASSIGNED or IN_PROGRESS): the
\* assignment it completes no longer counts, so the load goes down by one.
C27_Step ==
    ( /\ last'.op = "review_submit"
      /\ last'.result = "ok"
      /\ \A r \in Reviewers :
            current_load[r] = Cardinality(ActiveAssignments(assignments, r)) )
    => \A r \in Reviewers :
          current_load'[r] = Cardinality(ActiveAssignments(assignments', r))
C27_SubmitDecrementsLoad == [][C27_Step]_vars

\* C28: through any sequence of increment_load and decrement_load calls no
\* load is negative; decrement_load at load 0 leaves 0; a decrement_load
\* that follows an increment_load on the same reviewer gives back the load
\* there was before the increment.
C28_Step ==
    /\ \A r \in Reviewers : current_load'[r] >= 0
    /\ ( last'.op = "decrement_load" /\ current_load[last'.reviewer] = 0 )
       => current_load'[last'.reviewer] = 0
    /\ ( /\ last.op = "increment_load"
         /\ last'.op = "decrement_load"
         /\ last'.reviewer = last.reviewer )
       => current_load'[last.reviewer] = last.before
C28_LoadNeverNegative == [][C28_Step]_vars

\* decrement_load was called at load 0, after calls that changed loads.
C28_Witness ==
    /\ last.op = "decrement_load"
    /\ last.before = 0
    /\ current_load[last.reviewer] = 0
    /\ steps >= 2

\* C29: a call of calculate_weighted_score changes neither the rubric's
\* criteria nor any stored row (reviews and their score maps included), and
\* returns what the call before it returned when that call had the same
\* score map (the rubric being the same throughout).
C29_Step ==
    last'.op = "calculate_weighted_score"
    => /\ criteria' = criteria
       /\ reviews' = reviews
       /\ <<appVars, audit, assignments, coi_flags, current_load>>' =
             <<appVars, audit, assignments, coi_flags, current_load>>
       /\ \A i \in DOMAIN last'.previous : last'.previous[i] = last'.result
C30_Step ==
    last'.op \in TransitionOps =>
        /\ last'.result \in {"ok", "error"} =>
              last'.target \in STATE_TRANSITIONS[status[last'.app]]
        /\ last'.result = "StateTransitionError" =>
              /\ last'.current = status[last'.app]
              /\ last'.allowed = STATE_TRANSITIONS[status[last'.app]]
              /\ last'.instance.status = status[last'.app]
              /\ last'.instance.submitted_at = submitted_at[last'.app]
              /\ appVars' = appVars
              /\ audit' = audit
              /\ revVars' = revVars
C30_InvalidTransitionRefused == [][C30_Step]_vars

\* A transition_to call on a submitted application, whose status allows
\* other targets, has been refused.
C30_Witness ==
    /\ last.op = "transition_to"
    /\ last.result = "StateTransitionError"
    /\ last.allowed # {}
    /\ submitted_at[last.app] # None
    /\ last.instance.submitted_at = submitted_at[last.app]

(* ============ failures, submissions, flags and the table's shape ======== *)
\* C31: an assign_reviewer call that fails at its load increment or at its
\* audit insert leaves no assignment of the pair behind and the reviewer's
\* load and the log as they were; an assignment row a call leaves behind
\* comes with its load increment and its REVIEW_ASSIGNED row.
C31_Step ==
    last'.op = "assign_reviewer" =>
        /\ last'.result = "error" =>
              /\ assignments' = assignments
              /\ current_load' = current_load
              /\ audit' = audit
        /\ \A x \in assignments' \ assignments :
              /\ current_load'[x.reviewer] = current_load[x.reviewer] + 1
              /\ audit' = Append(audit,
                                 ReviewAssignedEntry(last'.actor, x.application, x.reviewer))
C31_AssignAllOrNothing == [][C31_Step]_vars

\* The score of a score map under the criteria as they are: 0 when the
\* total weight is 0, the weighted formula otherwise.
ScoreNow(scores) ==
    IF \A c \in DOMAIN criteria : criteria[c].weight = 0 THEN <<0, 1>>
    ELSE ExactScore(scores)

\* C32: a review_submit that succeeds leaves the review SUBMITTED, stamped
\* with the time of the call, its scores as they were, its overall_score the
\* weighted score of those scores under the rubric's criteria as they are at
\* the call (kept to the two decimal places of the field), and the owning
\* assignment COMPLETED.
C32_Step ==
    ( last'.op = "review_submit" /\ last'.result = "ok" ) =>
        \A x \in AssignmentsOf(last'.app, last'.reviewer) :
            /\ reviews'[x.id].status = "SUBMITTED"
            /\ reviews'[x.id].submitted_at = now
            /\ reviews'[x.id].scores = reviews[x.id].scores
            /\ reviews'[x.id].overall_score =
                  StoredOverallScore(ScoreNow(reviews[x.id].scores))
            /\ [x EXCEPT !.status = "COMPLETED"] \in assignments'
            /\ Cardinality(AssignmentsIn(assignments', x.application, x.reviewer)) = 1
C32_SubmitEffects == [][C32_Step]_vars

\* A review was submitted after the rubric had been edited: its stored
\* score is the one of the edited rubric, rounded to hundredths.
C32_Witness ==
    /\ last.op = "review_submit"
    /\ last.result = "ok"
    /\ criteria # SeedRubric
    /\ \E x \in AssignmentsOf(last.app, last.reviewer) :
          /\ x.status = "COMPLETED"
          /\ reviews[x.id].status = "SUBMITTED"
          /\ reviews[x.id].overall_score % 100 # 0

\* C33: no pair of reviewer and application ever has two COIFlag rows, and
\* a declare_coi for a pair that has a flag adds no flag and leaves the
\* flags, the assignments and every load as they were.
C33_Step ==
    /\ \A a \in DOMAIN status', r \in Reviewers :
          Cardinality(FlagsIn(coi_flags', a, r)) <= 1
    /\ ( last'.op = "declare_coi" /\ FlagsOf(last'.app, last'.reviewer) # {} ) =>
          /\ coi_flags' = coi_flags
          /\ assignments' = assignments
          /\ current_load' = current_load
          /\ reviews' = reviews
C33_OneFlagPerPair == [][C33_Step]_vars

\* A second declare_coi for a flagged pair has been refused, in a store that
\* holds an assignment and a load above 0.
C33_Witness ==
    /\ last.op = "declare_coi"
    /\ last.result = "IntegrityError"
    /\ Cardinality(FlagsOf(last.app, last.reviewer)) = 1
    /\ assignments # {}
    /\ \E r \in Reviewers : current_load[r] > 0

\* C34: check_potential_coi returns its list of warnings (the organization
\* warning when the reviewer's organization is set and equals the
\* applicant's, the previous-reviews warning with its count when the
\* reviewer has assignments on other applications of the applicant) without
\* raising, and changes nothing: no flag is created, no assignment removed,
\* no load and no status changed.
C34_Step ==
    last'.op = "check_potential_coi" =>
        LET others == {x \in assignments : x.reviewer = last'.reviewer
                                             /\ x.application # last'.app}
            same == last'.reviewer_org # "" /\ last'.reviewer_org = last'.applicant_org
            w == last'.returned
        IN  /\ last'.result = "ok"
            /\ Len(w) = (IF same THEN 1 ELSE 0) + (IF others # {} THEN 1 ELSE 0)
            /\ same => w[1] = <<"Same organization as applicant">>
            /\ others # {} =>
                  /\ Len(w[Len(w)]) = 3
                  /\ w[Len(w)][1] = "Previously reviewed"
                  /\ w[Len(w)][2] = Cardinality(others)
            /\ coi_flags' = coi_flags
            /\ assignments' = assignments
            /\ reviews' = reviews
            /\ current_load' = current_load
            /\ status' = status
            /\ submitted_at' = submitted_at
            /\ audit' = audit
C34_CheckIsAdvisory == [][C34_Step]_vars

\* The check has returned both warnings for a reviewer who is assigned to the
\* application and to another one, and the assignments are still there.
C34_Witness ==
    /\ last.op = "check_potential_coi"
    /\ Len(last.returned) = 2
    /\ AssignmentsOf(last.app, last.reviewer) # {}
    /\ current_load[last.reviewer] = 2
    /\ FlagsOf(last.app, last.reviewer) = {}

\* The call of the step went on to notify and the notification raised.
NotificationFailed(call) ==
    /\ "notification" \in DOMAIN call
    /\ call.notification = "failed"

\* C35: when the notification that follows a successful transition_to to
\* SUBMITTED, a successful review submission or a successful declare_coi
\* raises, what the operation wrote stays: the SUBMITTED status with its
\* stamp and its STATE_CHANGE row; the SUBMITTED review with its COMPLETED
\* assignment; the flag, with the pair's assignment removed, the load
\* decremented and the unassignment logged.
C35_Step ==
    NotificationFailed(last') =>
        LET a == last'.app
            r == last'.reviewer
        IN  /\ last'.op = "application_submit" =>
                  /\ status'[a] = "SUBMITTED"
                  /\ submitted_at'[a] # None
                  /\ audit' = Append(audit,
                                     StateChangeEntry(last'.actor, a, status[a], "SUBMITTED"))
            /\ last'.op = "review_submit" =>
                  \A x \in AssignmentsOf(a, r) :
                      /\ reviews'[x.id].status = "SUBMITTED"
                      /\ reviews'[x.id].submitted_at = now
                      /\ [x EXCEPT !.status = "COMPLETED"] \in assignments'
            /\ last'.op = "declare_coi" =>
                  /\ FlagsOf(a, r) = {}
                  /\ Cardinality(FlagsIn(coi_flags', a, r)) = 1
                  /\ AssignmentsIn(assignments', a, r) = {}
                  /\ AssignmentsOf(a, r) # {} =>
                        /\ current_load'[r] = decrement_load(current_load[r])
                        /\ audit' = Append(audit, UnassignedEntry(r, a, r))
C35_NotificationFailureKeepsCore == [][C35_Step]_vars

\* The three notifications have failed in turn: the application is
\* SUBMITTED, one reviewer's review is SUBMITTED, and the other reviewer's
\* flag is stored with the assignment gone.
C35_Witness ==
    /\ NotificationFailed(last)
    /\ last.op = "declare_coi"
    /\ status[last.app] = "SUBMITTED"
    /\ coi_flags # {}
    /\ AssignmentsOf(last.app, last.reviewer) = {}
    /\ \E x \in assignments : /\ x.application = last.app
                              /\ x.status = "COMPLETED"
                              /\ reviews[x.id].status = "SUBMITTED"

\* C36: in every reachable state an application whose status is SUBMITTED
\* has submitted_at set, whichever handler made it SUBMITTED.
C36_SubmittedHasStamp ==
    \A a \in Apps : status[a] = "SUBMITTED" => submitted_at[a] # None

\* C37: a review that is SUBMITTED stays as it is for as long as it is
\* stored: no step returns it to DRAFT or changes its scores, its
\* overall_score or its submitted_at.
C37_Step ==
    \A i \in DOMAIN reviews \cap DOMAIN reviews' :
        reviews[i].status = "SUBMITTED" =>
            /\ reviews'[i].status = "SUBMITTED"
            /\ reviews'[i].scores = reviews[i].scores
            /\ reviews'[i].overall_score = reviews[i].overall_score
            /\ reviews'[i].submitted_at = reviews[i].submitted_at
C37_SubmittedReviewIsFinal == [][C37_Step]_vars

\* C38: when unassign_reviewer or declare_coi removes an assignment and the
\* application is left with at least one assignment, all of them COMPLETED,
\* the application's status is REVIEWED after the call.
C38_Step ==
    ( last'.op \in {"unassign_reviewer", "declare_coi"} /\ last'.result = "ok" ) =>
        \A x \in assignments \ assignments' :
            LET left == {y \in assignments' : y.application = x.application}
            IN  ( left # {} /\ \A y \in left : y.status = "COMPLETED" )
                    => status'[x.application] = "REVIEWED"
C38_RemovalAdvancesToReviewed == [][C38_Step]_vars

\* The statuses that a chain of allowed transitions (of any length, none
\* included) leads to from the statuses S.
RECURSIVE ReachableFrom(_)
ReachableFrom(S) ==
    LET more == S \cup UNION {get_allowed_transitions(s) : s \in S}
    IN  IF more = S THEN S ELSE ReachableFrom(more)
ReachableFromDraft == ReachableFrom({"DRAFT"})
ReachArchived == {s \in ApplicationStatus : "ARCHIVED" \in ReachableFrom({s})}
Terminal == {s \in ApplicationStatus : get_allowed_transitions(s) = {}}

\* C39: in the table, the 14 statuses are all reachable from DRAFT, ARCHIVED
\* is reachable from every status, and ARCHIVED is the only status without
\* an outgoing transition; so every stored application that is not ARCHIVED
\* has an allowed transition.
C39_NoStuckStatus ==
    /\ Cardinality(ApplicationStatus) = 14
    /\ ReachableFromDraft = ApplicationStatus
    /\ ReachArchived = ApplicationStatus
    /\ Terminal = {"ARCHIVED"}
    /\ \A a \in Apps :
          status[a] # "ARCHIVED" =>
              \E t \in ApplicationStatus : can_transition_to(status[a], t)

\* An application has been archived by transition_to while another one is
\* in a status that is neither DRAFT nor ARCHIVED.
C39_Witness ==
    /\ last.op = "transition_to"
    /\ last.result = "ok"
    /\ last.target = "ARCHIVED"
    /\ status[last.app] = "ARCHIVED"
    /\ \E a \in Apps : status[a] \notin {"DRAFT", "ARCHIVED"}

====
